---- MODULE Spec2Model ----
(***************************************************************************)
(* Model of the HLS resolution, segment retrieval and resumable catalog    *)
(* loop of frontendmasters-downloader: src/src/index.js (downloadCourse),  *)
(* downloader.js (src/unnamed/part_002) and merger.js                      *)
(* (src/unnamed/part_004).                                                 *)
(*                                                                         *)
(* Text is modelled after lexing: a playlist body is the sequence of its   *)
(* lines (the result of split('\n')), a line is a sequence of tokens, and  *)
(* the string tests of the code (trim, startsWith, endsWith, includes,     *)
(* match) are computed on the tokens.  The empty string is the body <<>>.  *)
(***************************************************************************)
EXTENDS Integers, Sequences, FiniteSets, TLC

\* ------------------------------------------------------------------ bounds

\* Number of lessons of the catalog (ordinals 1..NumLessons).
NumLessons == 2

\* Number of invocations of downloadCourse against the same output root.
MaxRuns == 2

\* Largest retryCount handed to downloadSegment when it is exercised alone.
MaxRetry == 4

\* Largest number of #EXT-X-STREAM-INF blocks of an enumerated master playlist.
MaxVariants == 3

\* Number of segment URLs downloadSegment is exercised on when it is called alone.
MaxSegments == 3

\* Largest number of lines of an enumerated playlist text.
MaxLines == 3

\* ------------------------------------------------------- program constants

\* downloadSegment(page, segmentUrl, retryCount = 3)
DefaultRetryCount == 3

\* const delay = Math.pow(2, attempt - 1) * 1000
BackoffUnitMs == 1000

\* puppeteer.launch({ ..., protocolTimeout: 60000 }): the limit of every
\* page.evaluate call, hence of every segment fetch attempt.
ProtocolTimeoutMs == 60000

\* ------------------------------------------------------------ text model

WS == " "

HashTokens == {"#", "#EXTM3U", "#EXTINF", "#EXT-X-STREAM-INF", "#EXT-X-ENDLIST"}

HttpTokens == {"http://", "https://"}

\* Digit strings and the value parseInt gives them.
DigitTokens == {"0", "500", "800", "1200"}

ParseInt(tok) ==
  CASE tok = "0" -> 0
    [] tok = "500" -> 500
    [] tok = "800" -> 800
    [] tok = "1200" -> 1200

RECURSIVE TrimLeft(_)
TrimLeft(line) ==
  IF line # <<>> /\ Head(line) = WS THEN TrimLeft(Tail(line)) ELSE line

RECURSIVE TrimRight(_)
TrimRight(line) ==
  IF line # <<>> /\ line[Len(line)] = WS
    THEN TrimRight(SubSeq(line, 1, Len(line) - 1))
    ELSE line

\* String.prototype.trim
Trim(line) == TrimRight(TrimLeft(line))

\* line.startsWith('#')
StartsWithHash(line) == line # <<>> /\ Head(line) \in HashTokens

\* line.startsWith('#EXT-X-STREAM-INF')
StartsWithStreamInf(line) == line # <<>> /\ Head(line) = "#EXT-X-STREAM-INF"

\* line.startsWith('http')
StartsWithHttp(line) == line # <<>> /\ Head(line) \in HttpTokens

\* line.endsWith('.ts')
EndsWithTs(line) == line # <<>> /\ line[Len(line)] = ".ts"

\* A segment line: after trimming it is not empty, is no tag or comment, ends in '.ts'
IsSegmentLine(line) ==
  LET t == Trim(line) IN t # <<>> /\ ~StartsWithHash(t) /\ EndsWithTs(t)

\* line.includes('.ts')
LineIncludesTs(line) == \E k \in 1..Len(line) : line[k] = ".ts"

\* content.includes('.ts') on a whole body: '.ts' holds no newline, so it lies in a line
IncludesTs(content) == \E n \in 1..Len(content) : LineIncludesTs(content[n])

\* content.split('\n'): the empty string splits into one empty line
SplitLines(content) == IF content = <<>> THEN << <<>> >> ELSE content

\* new URL(relative, base).href for a relative reference without scheme, leading
\* slash or dot segments: the base without its last path segment, then the reference.
RECURSIVE DirOf(_)
DirOf(url) ==
  IF url = <<>> \/ url[Len(url)] = "/" THEN url
  ELSE DirOf(SubSeq(url, 1, Len(url) - 1))

ResolveUrl(ref, base) == DirOf(base) \o ref

\* ------------------------------------------------- downloader.js: parsing

NoError == ""

\* The loop with unshift in place of push: the URLs come out last line first.
RECURSIVE SegmentUrlsUnshifted(_, _, _)
SegmentUrlsUnshifted(lines, n, baseUrl) ==
  IF n > Len(lines) THEN <<>>
  ELSE LET trimmedLine == Trim(lines[n])
           rest == SegmentUrlsUnshifted(lines, n + 1, baseUrl)
       IN IF trimmedLine = <<>> \/ StartsWithHash(trimmedLine) THEN rest
          ELSE IF EndsWithTs(trimmedLine)
            THEN IF StartsWithHttp(trimmedLine)
                   THEN rest \o <<trimmedLine>>
                   ELSE rest \o <<ResolveUrl(trimmedLine, baseUrl)>>
            ELSE rest

\* The loop with includes('.ts') in place of endsWith('.ts').
RECURSIVE SegmentUrlsIncluding(_, _, _)
SegmentUrlsIncluding(lines, n, baseUrl) ==
  IF n > Len(lines) THEN <<>>
  ELSE LET trimmedLine == Trim(lines[n])
           rest == SegmentUrlsIncluding(lines, n + 1, baseUrl)
       IN IF trimmedLine = <<>> \/ StartsWithHash(trimmedLine) THEN rest
          ELSE IF LineIncludesTs(trimmedLine)
            THEN IF StartsWithHttp(trimmedLine)
                   THEN <<trimmedLine>> \o rest
                   ELSE <<ResolveUrl(trimmedLine, baseUrl)>> \o rest
            ELSE rest

\* for (const line of lines) { ... } of parseM3U8Playlist: the URLs pushed for lines[n..]
RECURSIVE SegmentUrlsFrom(_, _, _)
SegmentUrlsFrom(lines, n, baseUrl) ==
  IF n > Len(lines) THEN <<>>
  ELSE LET trimmedLine == Trim(lines[n])
           rest == SegmentUrlsFrom(lines, n + 1, baseUrl)
       IN IF trimmedLine = <<>> \/ StartsWithHash(trimmedLine) THEN rest
          ELSE IF EndsWithTs(trimmedLine)
            THEN IF StartsWithHttp(trimmedLine)
                   THEN <<trimmedLine>> \o rest
                   ELSE <<ResolveUrl(trimmedLine, baseUrl)>> \o rest
            ELSE rest

\* The parse without its check of the empty text.
parseM3U8PlaylistUnchecked(m3u8Content, baseUrl) ==
  [error |-> NoError, urls |-> SegmentUrlsFrom(SplitLines(m3u8Content), 1, baseUrl)]

\* parseM3U8Playlist(m3u8Content, baseUrl): [error, urls]
parseM3U8Playlist(m3u8Content, baseUrl) ==
  IF m3u8Content = <<>>
    THEN [error |-> "Invalid M3U8 content provided", urls |-> <<>>]
    ELSE [error |-> NoError,
          urls |-> SegmentUrlsFrom(SplitLines(m3u8Content), 1, baseUrl)]

\* Tokens in which the text 'BANDWIDTH=' occurs.
BandwidthKeyTokens == {"BANDWIDTH=", "AVERAGE-BANDWIDTH="}

\* line.match(/BANDWIDTH=(\d+)/) ? parseInt(match[1]) : 0  (the first match)
BandwidthOf(line) ==
  LET hits == {k \in 1..(Len(line) - 1) :
                 line[k] \in BandwidthKeyTokens /\ line[k + 1] \in DigitTokens}
  IN IF hits = {} THEN 0
     ELSE LET k == CHOOSE h \in hits : \A g \in hits : h <= g
          IN ParseInt(line[k + 1])

\* for (let j = i + 1; ...): index of the next non-empty, non-comment line, 0 if none
RECURSIVE NextContentLine(_, _)
NextContentLine(lines, j) ==
  IF j > Len(lines) THEN 0
  ELSE LET variantLine == Trim(lines[j])
       IN IF variantLine # <<>> /\ ~StartsWithHash(variantLine) THEN j
          ELSE NextContentLine(lines, j + 1)

\* The variants pushed by the loop of parseAllVariants for lines[i..], in document order.
RECURSIVE VariantsFrom(_, _, _)
VariantsFrom(lines, i, masterUrl) ==
  IF i > Len(lines) THEN <<>>
  ELSE LET line == Trim(lines[i])
           rest == VariantsFrom(lines, i + 1, masterUrl)
       IN IF StartsWithStreamInf(line)
            THEN LET j == NextContentLine(lines, i + 1)
                 IN IF j = 0 THEN rest
                    ELSE LET variantLine == Trim(lines[j])
                             url == IF StartsWithHttp(variantLine) THEN variantLine
                                    ELSE ResolveUrl(variantLine, masterUrl)
                         IN <<[url |-> url, bandwidth |-> BandwidthOf(line)]>> \o rest
            ELSE rest

\* Insertion of v into a list sorted by descending bandwidth, after its equals.
RECURSIVE InsertByBandwidth(_, _)
InsertByBandwidth(sorted, v) ==
  IF sorted = <<>> THEN <<v>>
  ELSE IF Head(sorted).bandwidth >= v.bandwidth
    THEN <<Head(sorted)>> \o InsertByBandwidth(Tail(sorted), v)
    ELSE <<v>> \o sorted

\* variants.sort((a, b) => b.bandwidth - a.bandwidth): Array.prototype.sort is stable
RECURSIVE SortByBandwidthDesc(_)
SortByBandwidthDesc(variants) ==
  IF variants = <<>> THEN <<>>
  ELSE InsertByBandwidth(
         SortByBandwidthDesc(SubSeq(variants, 1, Len(variants) - 1)),
         variants[Len(variants)])

\* parseAllVariants(masterContent, masterUrl)
parseAllVariants(masterContent, masterUrl) ==
  IF masterContent = <<>> THEN <<>>
  ELSE SortByBandwidthDesc(VariantsFrom(SplitLines(masterContent), 1, masterUrl))

\* The loop of parseMasterPlaylist for lines[i..]: bestUrl (<<>> for null) and
\* bestBandwidth as they stand, replaced only by a strictly larger bandwidth
RECURSIVE BestVariantFrom(_, _, _, _, _)
BestVariantFrom(lines, i, masterUrl, bestUrl, bestBandwidth) ==
  IF i > Len(lines) THEN bestUrl
  ELSE LET line == Trim(lines[i])
           j == NextContentLine(lines, i + 1)
           bandwidth == BandwidthOf(line)
       IN IF StartsWithStreamInf(line) /\ j # 0 /\ bandwidth > bestBandwidth
            THEN LET variantLine == Trim(lines[j])
                     url == IF StartsWithHttp(variantLine) THEN variantLine
                            ELSE ResolveUrl(variantLine, masterUrl)
                 IN BestVariantFrom(lines, i + 1, masterUrl, <<url>>, bandwidth)
            ELSE BestVariantFrom(lines, i + 1, masterUrl, bestUrl, bestBandwidth)

\* parseMasterPlaylist(masterContent, masterUrl): <<>> for null, else <<the URL>>
parseMasterPlaylist(masterContent, masterUrl) ==
  IF masterContent = <<>> THEN <<>>
  ELSE BestVariantFrom(SplitLines(masterContent), 1, masterUrl, <<>>, 0)

\* m3u8Responses[url] is truthy: the key exists and its body is not the empty string
Captured(m3u8Responses, url) ==
  url \in DOMAIN m3u8Responses /\ m3u8Responses[url] # <<>>

\* if (masterContent.includes('.ts')) of resolveSegmentPlaylist
IsSegmentPlaylist(masterContent) == IncludesTs(masterContent)

\* for (const candidate of variantUrls) { if (m3u8Responses[candidate.url]) ... break }
RECURSIVE FirstCaptured(_, _)
FirstCaptured(variantUrls, m3u8Responses) ==
  IF variantUrls = <<>> THEN <<>>
  ELSE IF Captured(m3u8Responses, Head(variantUrls).url) THEN <<Head(variantUrls)>>
  ELSE FirstCaptured(Tail(variantUrls), m3u8Responses)

\* A result that names the directory-less master name as the URL of every body
ResolvedAtMaster(url, content) ==
  [error |-> NoError,
   playlistUrl |-> <<"https://", "cdn", "/", "hls", "/", "index", ".m3u8">>,
   playlistContent |-> content]

Resolved(url, content) ==
  [error |-> NoError, playlistUrl |-> url, playlistContent |-> content]

ResolveError(message) ==
  [error |-> message, playlistUrl |-> <<>>, playlistContent |-> <<>>]

\* resolveSegmentPlaylist(masterM3u8Url, m3u8Responses)
resolveSegmentPlaylist(masterM3u8Url, m3u8Responses) ==
  IF ~Captured(m3u8Responses, masterM3u8Url)
    THEN ResolveError("Master M3U8 response body not captured")
  ELSE LET masterContent == m3u8Responses[masterM3u8Url]
       IN IF IsSegmentPlaylist(masterContent)
            THEN Resolved(masterM3u8Url, masterContent)
          ELSE LET variantUrls == parseAllVariants(masterContent, masterM3u8Url)
                   found == FirstCaptured(variantUrls, m3u8Responses)
               IN IF variantUrls = <<>>
                    THEN ResolveError("No variant streams found in master M3U8 playlist")
                  ELSE IF found = <<>>
                    THEN ResolveError("No variant M3U8 response bodies were captured")
                  ELSE Resolved(found[1].url, m3u8Responses[found[1].url])

\* ------------------------------------------------------------------ state

VARIABLES
  run,               \* invocations of downloadCourse started so far
  pc,                \* where the current invocation stands
  keepTemp,          \* options.keepTemp of the current invocation
  lessons,           \* lesson numbers returned by extractCourseData, in page order
  idx,               \* position of the for...of loop in lessons (1-based)
  completedLessons,  \* the array progress.completed held by downloadCourse
  progressFile,      \* <outputDir>/.download-progress.json
  tempDirs,          \* lesson number -> <outputDir>/.temp/<number>
  outputs,           \* lesson number -> the merged .mp4 of that lesson
  lesson,            \* the lesson object of the current iteration
  segmentUrls,       \* segmentUrls of downloadLesson
  i,                 \* loop index of downloadLesson (0-based)
  downloadedCount,   \* downloadedCount of downloadLesson
  segmentFiles,      \* segmentFiles of mergeSegments: the concat list
  segmentUrl,        \* argument of the running downloadSegment
  retryCount,        \* argument of the running downloadSegment
  attempt,           \* loop counter of downloadSegment
  lastError,         \* the error last caught (downloadSegment, then the loop's catch)
  segmentData,       \* the Buffer returned by downloadSegment
  calls,             \* history: page.evaluate calls of the running downloadSegment
  failures,          \* history: attempts of the running downloadSegment that threw
  waits,             \* history: delays slept by the running downloadSegment, in ms
  fetched,           \* history: segment indexes the running downloadLesson asked for
  written,           \* history: segment indexes the running downloadLesson wrote
  ops,               \* history: <<lesson number, operation>> performed in this run
  prevAttempted,     \* history: lesson numbers the previous run called downloadLesson for
  loaded,            \* history: lesson numbers in the progress file when this run began
  fnIn,              \* argument of a function exercised on its own
  fnOut              \* its result

runVars == <<run, keepTemp, lessons, completedLessons>>
diskVars == <<progressFile, tempDirs, outputs>>
lessonVars == <<lesson, segmentUrls, i, downloadedCount, segmentFiles>>
segVars == <<segmentUrl, retryCount, attempt, lastError, segmentData>>
segHist == <<calls, failures, waits>>
itemHist == <<fetched, written>>
runHist == <<ops, prevAttempted, loaded>>
fnVars == <<fnIn, fnOut>>
vars == <<runVars, pc, idx, diskVars, lessonVars, segVars, segHist, itemHist, runHist, fnVars>>

\* ------------------------------------------------------------- file names

DigitChars == <<"0", "1", "2", "3", "4", "5", "6", "7", "8", "9">>

\* String(n) for n >= 0, one token per digit
RECURSIVE DecimalString(_)
DecimalString(n) ==
  IF n < 10 THEN <<DigitChars[n + 1]>>
  ELSE DecimalString(n \div 10) \o <<DigitChars[(n % 10) + 1]>>

\* str.padStart(width, '0')
RECURSIVE PadStartZero(_, _)
PadStartZero(str, width) ==
  IF Len(str) >= width THEN str ELSE PadStartZero(<<"0">> \o str, width)

\* `${String(i).padStart(5, '0')}.ts`
SegmentFileName(n) == PadStartZero(DecimalString(n), 5) \o <<".ts">>

ConcatFileName == <<"concat", ".txt">>

ManifestFileName == <<"manifest", ".json">>

DigitValue(tok) == CHOOSE d \in 0..9 : DigitChars[d + 1] = tok

IsDigit(tok) == \E d \in 0..9 : DigitChars[d + 1] = tok

\* a.replace('.ts', ''): the first occurrence removed
RECURSIVE RemoveFirstTs(_)
RemoveFirstTs(name) ==
  IF name = <<>> THEN <<>>
  ELSE IF Head(name) = ".ts" THEN Tail(name)
  ELSE <<Head(name)>> \o RemoveFirstTs(Tail(name))

\* parseInt(str, 10) of a string that starts with a digit: its leading digits
RECURSIVE ParseLeadingDigits(_, _)
ParseLeadingDigits(str, acc) ==
  IF str = <<>> \/ ~IsDigit(Head(str)) THEN acc
  ELSE ParseLeadingDigits(Tail(str), 10 * acc + DigitValue(Head(str)))

\* parseInt(a.replace('.ts', ''), 10)
SegmentNumber(name) == ParseLeadingDigits(RemoveFirstTs(name), 0)

\* --------------------------------------------------------------- the disk

NoDir == [exists |-> FALSE, files |-> <<>>]

NoOutput == [exists |-> FALSE]

NoProgressFile == [state |-> "absent", completed |-> <<>>, total |-> 0]

\* The bytes the fetch capability returns for a URL.
Bytes(url) == [kind |-> "ts", url |-> url]

\* writeFile(path.join(dir, name), data): creates or overwrites
WriteFile(dir, name, data) ==
  [dir EXCEPT !.files =
     [f \in (DOMAIN dir.files) \cup {name} |-> IF f = name THEN data ELSE dir.files[f]]]

\* unlink of each of names, a missing file being ignored
UnlinkAll(dir, names) ==
  [dir EXCEPT !.files = [f \in (DOMAIN dir.files) \ names |-> dir.files[f]]]

Range(seq) == {seq[k] : k \in 1..Len(seq)}

\* --------------------------------------------------- merger.js: the input

\* readManifest(segmentsDir): <<>> for null, else <<the segments list>>
readManifest(dir) ==
  IF ManifestFileName \in DOMAIN dir.files /\ dir.files[ManifestFileName].kind = "manifest"
    THEN <<dir.files[ManifestFileName].segments>>
    ELSE <<>>

\* .sort((a, b) => parseInt(a...) - parseInt(b...)) of a set of names
RECURSIVE SortBySegmentNumber(_)
SortBySegmentNumber(names) ==
  IF names = {} THEN <<>>
  ELSE LET first == CHOOSE a \in names :
                      \A b \in names : SegmentNumber(a) <= SegmentNumber(b)
       IN <<first>> \o SortBySegmentNumber(names \ {first})

\* The order of a plain .sort() of names: by character, '.' before the digits
CharCode(tok) == IF IsDigit(tok) THEN DigitValue(tok) ELSE 0 - 1

RECURSIVE NameBefore(_, _)
NameBefore(a, b) ==
  IF a = <<>> THEN b # <<>>
  ELSE IF b = <<>> THEN FALSE
  ELSE IF Head(a) = Head(b) THEN NameBefore(Tail(a), Tail(b))
  ELSE CharCode(Head(a)) < CharCode(Head(b))

RECURSIVE SortByName(_)
SortByName(names) ==
  IF names = {} THEN <<>>
  ELSE LET first == CHOOSE a \in names : \A b \in names \ {a} : NameBefore(a, b)
       IN <<first>> \o SortByName(names \ {first})

\* getSegmentsFromDir with a sort that has no comparator
getSegmentsFromDirByName(dir) ==
  SortByName({f \in DOMAIN dir.files : EndsWithTs(f)})

\* getSegmentsFromDir(segmentsDir)
getSegmentsFromDir(dir) ==
  SortBySegmentNumber({f \in DOMAIN dir.files : EndsWithTs(f)})

\* segmentFiles of mergeSegments (lines 92-102)
MergeInput(dir) ==
  LET manifest == readManifest(dir)
  IN IF manifest # <<>> /\ Len(manifest[1]) > 0
       THEN [k \in 1..Len(manifest[1]) |-> SegmentFileName(k - 1)]
       ELSE getSegmentsFromDir(dir)

\* What ffmpeg's concat demuxer reads: the listed files, in the order of the list.
ConcatData(dir, files) == [k \in 1..Len(files) |-> dir.files[files[k]]]

\* Clean up of mergeSegments after a successful merge (cleanup defaults to true):
\* unlink every listed file, then remove the directory if it is empty or holds
\* only manifest.json.
MergeCleanup(dir, files) ==
  LET left == UnlinkAll(dir, Range(files))
      remaining == DOMAIN left.files
  IN IF remaining = {} \/ remaining = {ManifestFileName} THEN NoDir ELSE left

\* ------------------------------------------------- captured lesson inputs

MasterUrl == <<"https://", "cdn", "/", "hls", "/", "index", ".m3u8">>

VariantRef(k) == <<"v" \o DigitChars[k + 1], ".m3u8">>

ExtM3U == <<"#EXTM3U">>

ExtInf == <<"#EXTINF", ":", "10.0">>

StreamInf(bw) ==
  IF bw = "none" THEN <<"#EXT-X-STREAM-INF", ":", "RESOLUTION=1920x1080">>
  ELSE <<"#EXT-X-STREAM-INF", ":", "BANDWIDTH=", bw>>

SegRef(k) == <<"seg" \o DigitChars[k + 1], ".ts">>

\* A media playlist of n relative segment lines seg0.ts .. seg<n-1>.ts
RECURSIVE MediaLines(_, _)
MediaLines(k, n) ==
  IF k >= n THEN <<>> ELSE <<ExtInf, SegRef(k)>> \o MediaLines(k + 1, n)

MediaBody(n) == <<ExtM3U>> \o MediaLines(0, n) \o << <<"#EXT-X-ENDLIST">> >>

\* A master playlist with one #EXT-X-STREAM-INF block per element of bws
RECURSIVE MasterLines(_, _)
MasterLines(bws, k) ==
  IF k > Len(bws) THEN <<>>
  ELSE <<StreamInf(bws[k]), VariantRef(k)>> \o MasterLines(bws, k + 1)

MasterBody(bws) == <<ExtM3U>> \o MasterLines(bws, 1)

VariantUrl(k) == ResolveUrl(VariantRef(k), MasterUrl)

\* A media playlist whose one segment reference carries a query string
SignedMediaBody == <<ExtM3U, ExtInf, <<"seg0", ".ts", "?token=1">> >>

\* What extractM3U8Data can hand to the loop for one lesson: a media playlist
\* captured under the designated URL, a master with one captured variant, a
\* master with no captured variant, a designated body that was read as '', and
\* a media playlist none of whose lines ends in '.ts'.
LessonCaptures ==
  { [m3u8Url |-> MasterUrl, m3u8Responses |-> (MasterUrl :> MediaBody(2))],
    [m3u8Url |-> MasterUrl,
     m3u8Responses |-> (MasterUrl :> MasterBody(<<"500", "1200", "800">>)
                        @@ VariantUrl(3) :> MediaBody(1))],
    [m3u8Url |-> MasterUrl,
     m3u8Responses |-> (MasterUrl :> MasterBody(<<"500", "1200">>))],
    [m3u8Url |-> MasterUrl, m3u8Responses |-> (MasterUrl :> <<>>)],
    [m3u8Url |-> MasterUrl, m3u8Responses |-> (MasterUrl :> SignedMediaBody)] }

\* ------------------------------------------------------------ initial state

NoLesson == [number |-> 0, m3u8Url |-> <<>>, m3u8Responses |-> <<>>]

NoData == [kind |-> "none", url |-> <<>>]

NoCall == [fn |-> "none"]

\* No invocation of downloadCourse yet, on an empty output root.
CourseIdle ==
  /\ run = 0
  /\ pc = "idle"
  /\ keepTemp = FALSE
  /\ lessons = <<>>
  /\ idx = 0
  /\ completedLessons = <<>>
  /\ progressFile = NoProgressFile
  /\ tempDirs = [n \in 1..NumLessons |-> NoDir]
  /\ outputs = [n \in 1..NumLessons |-> NoOutput]
  /\ lesson = NoLesson
  /\ segmentUrls = <<>>
  /\ i = 0
  /\ downloadedCount = 0
  /\ segmentFiles = <<>>
  /\ fetched = {}
  /\ written = {}
  /\ ops = {}
  /\ prevAttempted = {}
  /\ loaded = {}

SegmentIdle ==
  /\ segmentUrl = <<>>
  /\ retryCount = 0
  /\ attempt = 0
  /\ lastError = NoError
  /\ segmentData = NoData
  /\ calls = 0
  /\ failures = 0
  /\ waits = <<>>

FnIdle == fnIn = NoCall /\ fnOut = NoCall

Init == CourseIdle /\ SegmentIdle /\ FnIdle

\* ------------------------------------------------- index.js: downloadCourse

\* loadProgress(outputDir), then progress.completed || []
loadProgress(file) ==
  IF file.state = "json" THEN file.completed ELSE <<>>

\* downloadSegment has returned or thrown: its locals are gone
LeaveSegment ==
  /\ segmentUrl' = <<>>
  /\ retryCount' = 0
  /\ attempt' = 0
  /\ segmentData' = NoData
  /\ calls' = 0
  /\ failures' = 0
  /\ waits' = <<>>

\* for (const lesson of lessons) leaves the iteration: its locals are gone
LeaveIteration ==
  /\ lesson' = NoLesson
  /\ segmentUrls' = <<>>
  /\ i' = 0
  /\ downloadedCount' = 0
  /\ segmentFiles' = <<>>
  /\ fetched' = {}
  /\ written' = {}
  /\ LeaveSegment

\* The loop without its try/catch: the error of one lesson leaves the loop and
\* rejects downloadCourse.
LessonFailedUncaught(message) ==
  /\ lastError' = message
  /\ idx' = idx
  /\ pc' = "rejected"
  /\ LeaveIteration

\* catch (error) { console.error(...) } of the loop: continue with the next lesson
LessonFailed(message) ==
  /\ lastError' = message
  /\ idx' = idx + 1
  /\ pc' = "loop"
  /\ LeaveIteration

\* The end of the try block: the next lesson
LessonDone ==
  /\ lastError' = NoError
  /\ idx' = idx + 1
  /\ pc' = "loop"
  /\ LeaveIteration

Record(number, what) == ops' = ops \cup {<<number, what>>}

\* History of the call of downloadLesson: the call itself and, when a playlist
\* was resolved for it, whether that playlist has no segment line.
RecordResolve(number, resolved) ==
  ops' = ops \cup {<<number, "resolve">>}
             \cup IF resolved.error = NoError
                     /\ \A k \in 1..Len(resolved.playlistContent) :
                          ~IsSegmentLine(resolved.playlistContent[k])
                    THEN {<<number, "no-segments">>}
                    ELSE {}

\* The lesson numbers downloadLesson was called for in this run
Attempted == {n \in 1..NumLessons : <<n, "resolve">> \in ops}

\* downloadCourse up to the loop (lines 49-90): ffmpeg check, login, metadata,
\* mkdir of the output root, loadProgress, extractCourseData.  A throw of
\* getCourseMetadata or extractCourseData rejects downloadCourse.
StartRun ==
  /\ pc \in {"idle", "done", "rejected"}
  /\ run < MaxRuns
  /\ run' = run + 1
  /\ ops' = {}
  /\ prevAttempted' = Attempted
  /\ lastError' = NoError
  /\ \E keep \in BOOLEAN : keepTemp' = keep
  /\ loaded' = Range(loadProgress(progressFile))
  /\ \/ /\ completedLessons' = loadProgress(progressFile)
        /\ lessons' = [n \in 1..NumLessons |-> n]
        /\ idx' = 1
        /\ pc' = "loop"
     \/ /\ pc' = "rejected"
        /\ lessons' = <<>>
        /\ idx' = 0
        /\ completedLessons' = <<>>
  /\ UNCHANGED <<diskVars, lessonVars, segmentUrl, retryCount, attempt, segmentData,
                 segHist, itemHist, fnVars>>

\* The test against the titles instead of the numbers: it never matches.
AlreadyDownloadedByTitle(number) == number \in {}

\* The test against the zero-based position of the lesson instead of its number.
AlreadyDownloadedByIndex(number) == (number - 1) \in Range(completedLessons)

\* completedLessons.includes(lesson.number)
AlreadyDownloaded(number) == number \in Range(completedLessons)

\* if (completedLessons.includes(lesson.number)) continue
LoopSkip ==
  /\ pc = "loop"
  /\ idx <= Len(lessons)
  /\ AlreadyDownloaded(lessons[idx])
  /\ idx' = idx + 1
  /\ UNCHANGED <<runVars, pc, diskVars, lessonVars, segVars, segHist, itemHist,
                 runHist, fnVars>>

\* The loop is over: finally { await browser.close() }
LoopEnd ==
  /\ pc = "loop"
  /\ idx > Len(lessons)
  /\ pc' = "done"
  /\ UNCHANGED <<runVars, idx, diskVars, lessonVars, segVars, segHist, itemHist,
                 runHist, fnVars>>

\* ----------------------------------------------- downloader.js: downloading

\* The call downloadSegment(page, segmentUrl) up to its first page.evaluate
CallDownloadSegment(url, count) ==
  /\ segmentUrl' = url
  /\ retryCount' = count
  /\ attempt' = 1
  /\ lastError' = NoError
  /\ segmentData' = NoData
  /\ calls' = 1
  /\ failures' = 0
  /\ waits' = <<>>
  /\ pc' = "fetching"

\* A linear delay: attempt * 1000
LinearDelay(n) == n * BackoffUnitMs

\* Math.pow(2, attempt - 1) * 1000
BackoffDelay(n) == (2 ^ (n - 1)) * BackoffUnitMs

\* catch (error) { lastError = error; if (attempt < retryCount) sleep } of
\* downloadSegment, and the throw after the loop when the attempts are used up
AttemptFailed(error) ==
  /\ lastError' = error
  /\ failures' = failures + 1
  /\ IF attempt < retryCount
       THEN /\ waits' = Append(waits, BackoffDelay(attempt))
            /\ pc' = "backoff"
       ELSE /\ waits' = waits
            /\ pc' = "seg_err"
  /\ UNCHANGED <<segmentUrl, retryCount, attempt, segmentData, calls>>

\* The in-flight page.evaluate settles: the bytes, or an error of fetch or of resp.ok
FetchReply ==
  /\ pc = "fetching"
  /\ \/ /\ segmentData' = Bytes(segmentUrl)
        /\ pc' = "seg_ok"
        /\ UNCHANGED <<segmentUrl, retryCount, attempt, lastError, segHist>>
     \/ AttemptFailed("HTTP 403: Forbidden")
  /\ UNCHANGED <<runVars, idx, diskVars, lessonVars, itemHist, runHist, fnVars>>

\* protocolTimeout: 0, which switches the timer off
TimeoutDisabled == 0 > 0

\* protocolTimeout: 60000 arms a timer for every protocol call (0 would switch it off)
TimeoutArmed == ProtocolTimeoutMs > 0

\* The in-flight page.evaluate is not answered within protocolTimeout: it rejects
AttemptTimeout ==
  /\ pc = "fetching"
  /\ TimeoutArmed
  /\ AttemptFailed("Runtime.callFunctionOn timed out")
  /\ UNCHANGED <<runVars, idx, diskVars, lessonVars, itemHist, runHist, fnVars>>

\* The backoff sleep is over: attempt++ and the next page.evaluate
BackoffElapsed ==
  /\ pc = "backoff"
  /\ attempt' = attempt + 1
  /\ calls' = calls + 1
  /\ pc' = "fetching"
  /\ UNCHANGED <<runVars, idx, diskVars, lessonVars, segmentUrl, retryCount, lastError,
                 segmentData, failures, waits, itemHist, runHist, fnVars>>

\* downloadLesson from its call in the loop to its first downloadSegment (lines
\* 212-262): validation, mkdir of the temp directory, resolveSegmentPlaylist,
\* parseM3U8Playlist.  The lesson's captured bodies are those extractCourseData
\* gathered for it in this run.
DownloadLessonBegin ==
  /\ pc = "loop"
  /\ idx <= Len(lessons)
  /\ ~AlreadyDownloaded(lessons[idx])
  /\ \E capture \in LessonCaptures :
       LET number == lessons[idx]
           resolved == resolveSegmentPlaylist(capture.m3u8Url, capture.m3u8Responses)
           parsed == parseM3U8Playlist(resolved.playlistContent, resolved.playlistUrl)
       IN /\ tempDirs' = [tempDirs EXCEPT ![number].exists = TRUE]
          /\ IF resolved.error # NoError
               THEN /\ LessonFailed(resolved.error)
                    /\ RecordResolve(number, resolved)
             ELSE IF parsed.error # NoError
               THEN /\ LessonFailed(parsed.error)
                    /\ RecordResolve(number, resolved)
             ELSE IF Len(parsed.urls) = 0
               THEN /\ LessonFailed("No video segments found in M3U8 playlist")
                    /\ RecordResolve(number, resolved)
             ELSE /\ lesson' = [number |-> number, m3u8Url |-> capture.m3u8Url,
                                m3u8Responses |-> capture.m3u8Responses]
                  /\ segmentUrls' = parsed.urls
                  /\ i' = 0
                  /\ downloadedCount' = 0
                  /\ segmentFiles' = <<>>
                  /\ CallDownloadSegment(parsed.urls[1], DefaultRetryCount)
                  /\ idx' = idx
                  /\ fetched' = {0}
                  /\ written' = {}
                  /\ RecordResolve(number, resolved)
  /\ UNCHANGED <<runVars, progressFile, outputs, prevAttempted, loaded, fnVars>>

\* A loop that asks for the next segment before the bytes of this one are written.
WriteSegmentDeferred ==
  /\ pc = "seg_ok"
  /\ lesson.number # 0
  /\ IF i + 1 < Len(segmentUrls)
       THEN /\ CallDownloadSegment(segmentUrls[i + 2], DefaultRetryCount)
            /\ fetched' = fetched \cup {i + 1}
            /\ i' = i + 1
            /\ UNCHANGED <<tempDirs, written, downloadedCount, ops>>
       ELSE /\ tempDirs' = [tempDirs EXCEPT ![lesson.number] =
                              WriteFile(@, SegmentFileName(i), segmentData)]
            /\ written' = written \cup {i}
            /\ downloadedCount' = downloadedCount + 1
            /\ i' = i + 1
            /\ pc' = "merge"
            /\ fetched' = fetched
            /\ lastError' = NoError
            /\ Record(lesson.number, "downloaded")
            /\ LeaveSegment
  /\ UNCHANGED <<lesson, segmentUrls, segmentFiles, idx>>
  /\ UNCHANGED <<runVars, progressFile, outputs, prevAttempted, loaded, fnVars>>

\* await writeFile(segmentPath, segmentData); downloadedCount++; then the next
\* segment, or the return of downloadLesson and the call of mergeSegments
WriteSegment ==
  /\ pc = "seg_ok"
  /\ lesson.number # 0
  /\ \/ /\ tempDirs' = [tempDirs EXCEPT ![lesson.number] =
                          WriteFile(@, SegmentFileName(i), segmentData)]
        /\ downloadedCount' = downloadedCount + 1
        /\ i' = i + 1
        /\ written' = written \cup {i}
        /\ IF i + 1 < Len(segmentUrls)
             THEN /\ CallDownloadSegment(segmentUrls[i + 2], DefaultRetryCount)
                  /\ fetched' = fetched \cup {i + 1}
                  /\ ops' = ops
             ELSE /\ pc' = "merge"
                  /\ fetched' = fetched
                  /\ lastError' = NoError
                  /\ Record(lesson.number, "downloaded")
                  /\ LeaveSegment
        /\ UNCHANGED <<lesson, segmentUrls, segmentFiles, idx>>
     \/ /\ LessonFailed("Failed to download segment: ENOSPC")
        /\ UNCHANGED <<tempDirs, ops>>
  /\ UNCHANGED <<runVars, progressFile, outputs, prevAttempted, loaded, fnVars>>

\* The catch that logs the failed segment and goes on with the next one.
SegmentFailedSkipped ==
  /\ pc = "seg_err"
  /\ lesson.number # 0
  /\ i' = i + 1
  /\ IF i + 1 < Len(segmentUrls)
       THEN /\ CallDownloadSegment(segmentUrls[i + 2], DefaultRetryCount)
            /\ fetched' = fetched \cup {i + 1}
            /\ ops' = ops
       ELSE /\ pc' = "merge"
            /\ fetched' = fetched
            /\ lastError' = NoError
            /\ Record(lesson.number, "downloaded")
            /\ LeaveSegment
  /\ UNCHANGED <<runVars, idx, diskVars, lesson, segmentUrls, downloadedCount,
                 segmentFiles, written, prevAttempted, loaded, fnVars>>

\* catch (error) { throw new Error(`Failed to download segment ...`) } of
\* downloadLesson, caught by the loop
SegmentFailed ==
  /\ pc = "seg_err"
  /\ lesson.number # 0
  /\ LessonFailed("Failed to download segment")
  /\ UNCHANGED <<runVars, diskVars, runHist, fnVars>>

\* ------------------------------------------------- merger.js: mergeSegments

\* mergeSegments(tempDir, outputFile) up to the spawn of ffmpeg (lines 71-138):
\* argument checks, checkFfmpeg, the segment list, concat.txt
MergeBegin ==
  /\ pc = "merge"
  /\ LET dir == tempDirs[lesson.number]
         files == MergeInput(dir)
     IN \/ /\ LessonFailed("ffmpeg is not installed or not available in PATH")
           /\ UNCHANGED tempDirs
        \/ IF Len(files) = 0
             THEN /\ LessonFailed("No TS segments found in directory")
                  /\ UNCHANGED tempDirs
             ELSE /\ segmentFiles' = files
                  /\ tempDirs' = [tempDirs EXCEPT ![lesson.number] =
                                    WriteFile(@, ConcatFileName,
                                              [kind |-> "concat", files |-> files])]
                  /\ pc' = "muxing"
                  /\ UNCHANGED <<idx, lesson, segmentUrls, i, downloadedCount, segVars,
                                 segHist, itemHist>>
  /\ UNCHANGED <<runVars, progressFile, outputs, runHist, fnVars>>

\* A close handler that resolves whatever the exit code is.
MuxerCloseAnyCode ==
  /\ pc = "muxing"
  /\ LET number == lesson.number
         dir == UnlinkAll(tempDirs[number], {ConcatFileName})
     IN \/ /\ outputs' = [outputs EXCEPT ![number] = [exists |-> TRUE]]
           /\ tempDirs' = [tempDirs EXCEPT ![number] = MergeCleanup(dir, segmentFiles)]
           /\ Record(number, "merged")
        \/ /\ tempDirs' = [tempDirs EXCEPT ![number] = dir]
           /\ UNCHANGED <<outputs, ops>>
  /\ pc' = "save"
  /\ UNCHANGED <<runVars, idx, progressFile, lessonVars, segVars, segHist, itemHist,
                 prevAttempted, loaded, fnVars>>

\* What ffmpeg writes to stderr before it exits with a non-zero code
MuxerStderr == "Invalid data found when processing input"

\* err.message of the 'error' event of the child process
SpawnErrorMessage == "spawn ffmpeg EACCES"

\* A close handler that cleans up before it looks at the exit code.
MuxerCloseCleansAlways ==
  /\ pc = "muxing"
  /\ LET number == lesson.number
         dir == UnlinkAll(tempDirs[number], {ConcatFileName})
         present == Range(segmentFiles) \subseteq DOMAIN dir.files
     IN \/ /\ present
           /\ outputs' = [outputs EXCEPT ![number] = [exists |-> TRUE]]
           /\ tempDirs' = [tempDirs EXCEPT ![number] = MergeCleanup(dir, segmentFiles)]
           /\ Record(number, "merged")
           /\ pc' = "save"
           /\ UNCHANGED <<idx, lessonVars, segVars, segHist, itemHist>>
        \/ /\ tempDirs' = [tempDirs EXCEPT ![number] = MergeCleanup(dir, segmentFiles)]
           /\ LessonFailed("ffmpeg exited with code 1: " \o MuxerStderr)
           /\ UNCHANGED <<outputs, ops>>
  /\ UNCHANGED <<runVars, progressFile, prevAttempted, loaded, fnVars>>

\* A close handler that is never run: the promise of mergeSegments stays pending.
MuxerCloseNeverRun == pc = "muxing" /\ UNCHANGED vars

\* ffmpeg.on('close', ...): concat.txt is unlinked; a non-zero code rejects and
\* leaves the blobs; code 0 writes the output, cleans up (cleanup defaults to
\* true, and the loop passes no options) and resolves.
MuxerClose ==
  /\ pc = "muxing"
  /\ LET number == lesson.number
         dir == UnlinkAll(tempDirs[number], {ConcatFileName})
         present == Range(segmentFiles) \subseteq DOMAIN dir.files
     IN \/ /\ present
           /\ outputs' = [outputs EXCEPT ![number] = [exists |-> TRUE]]
           /\ tempDirs' = [tempDirs EXCEPT ![number] = MergeCleanup(dir, segmentFiles)]
           /\ Record(number, "merged")
           /\ pc' = "save"
           /\ UNCHANGED <<idx, lessonVars, segVars, segHist, itemHist>>
        \/ /\ tempDirs' = [tempDirs EXCEPT ![number] = dir]
           /\ LessonFailed("ffmpeg exited with code 1: " \o MuxerStderr)
           /\ UNCHANGED <<outputs, ops>>
  /\ UNCHANGED <<runVars, progressFile, prevAttempted, loaded, fnVars>>

\* ffmpeg.on('error', ...): the process could not be spawned
MuxerSpawnError ==
  /\ pc = "muxing"
  /\ LessonFailed("Failed to spawn ffmpeg: " \o SpawnErrorMessage)
  /\ UNCHANGED <<runVars, diskVars, runHist, fnVars>>

\* ------------------------------------------ index.js: progress and clean up

\* A save that writes only the number pushed last
saveProgressLast(progress) ==
  [state |-> "json",
   completed |-> IF progress.completed = <<>> THEN <<>>
                 ELSE <<progress.completed[Len(progress.completed)]>>,
   total |-> progress.total]

\* saveProgress(outputDir, progress): writeFileSync of the JSON text
saveProgress(progress) ==
  [state |-> "json", completed |-> progress.completed, total |-> progress.total]

\* completedLessons.push(lesson.number); saveProgress(...) (lines 115-116).
\* A throw of writeFileSync is caught by the loop; the push has happened.
SaveProgress ==
  /\ pc = "save"
  /\ completedLessons' = Append(completedLessons, lesson.number)
  /\ \/ /\ progressFile' = saveProgress([completed |-> completedLessons',
                                          total |-> Len(lessons)])
        /\ ops' = ops
        /\ pc' = "cleanup"
        /\ UNCHANGED <<idx, lessonVars, segVars, segHist, itemHist>>
     \/ /\ LessonFailed("EACCES: permission denied")
        /\ UNCHANGED <<progressFile, ops>>
  /\ UNCHANGED <<run, keepTemp, lessons, tempDirs, outputs, prevAttempted, loaded, fnVars>>

\* if (!keepTemp) { readdir; unlink each; rmdir } (lines 119-125).  readdir of a
\* directory that no longer exists throws ENOENT, which the loop catches.
Cleanup ==
  /\ pc = "cleanup"
  /\ LET number == lesson.number
         dir == tempDirs[number]
     IN IF keepTemp
          THEN LessonDone /\ UNCHANGED tempDirs
        ELSE IF ~dir.exists
          THEN LessonFailed("ENOENT: no such file or directory, scandir") /\ UNCHANGED tempDirs
        ELSE LessonDone /\ tempDirs' = [tempDirs EXCEPT ![number] = NoDir]
  /\ UNCHANGED <<runVars, progressFile, outputs, runHist, fnVars>>

\* ---------------------------------------------------------- specification

\* The steps the running downloadCourse takes by itself
ProgramStep ==
  \/ LoopSkip
  \/ LoopEnd
  \/ DownloadLessonBegin
  \/ BackoffElapsed
  \/ WriteSegment
  \/ SegmentFailed
  \/ MergeBegin
  \/ SaveProgress
  \/ Cleanup

Next ==
  \/ StartRun
  \/ ProgramStep
  \/ FetchReply
  \/ AttemptTimeout
  \/ MuxerClose
  \/ MuxerSpawnError

Spec == Init /\ [][Next]_vars

\* downloadCourse with a fetch capability and a muxer that answer: every
\* page.evaluate settles and ffmpeg closes.
FairSpec ==
  /\ Spec
  /\ WF_vars(ProgramStep)
  /\ WF_vars(FetchReply)
  /\ WF_vars(MuxerClose)

\* downloadCourse with a fetch capability that may never answer: only the timer of
\* protocolTimeout is sure to fire.
TimerSpec ==
  /\ Spec
  /\ WF_vars(ProgramStep)
  /\ WF_vars(AttemptTimeout)

\* ------------------------------------------------ downloadSegment on its own

\* The segment URLs of a media playlist of MaxSegments lines
SegmentInputs == Range(parseM3U8Playlist(MediaBody(MaxSegments), MasterUrl).urls)

\* downloadSegment(page, segmentUrl, retryCount) called with any retryCount >= 1
CallSegment ==
  /\ pc = "idle"
  /\ \E url \in SegmentInputs, count \in 1..MaxRetry : CallDownloadSegment(url, count)
  /\ UNCHANGED <<runVars, idx, diskVars, lessonVars, itemHist, runHist, fnVars>>

SegNext ==
  \/ CallSegment
  \/ FetchReply
  \/ AttemptTimeout
  \/ BackoffElapsed

SegSpec == Init /\ [][SegNext]_vars

\* ----------------------------------------- resolveSegmentPlaylist on its own

BandwidthChoices == {"none", "500", "800", "1200"}

\* The reference of variant k: v<k>.m3u8, or v<k>.ts.m3u8 for a packager that keeps
\* the container name in the playlist name
VariantRefIn(style, k) ==
  IF style = "ts" THEN <<"v" \o DigitChars[k + 1], ".ts", ".m3u8">> ELSE VariantRef(k)

RECURSIVE MasterLinesIn(_, _, _)
MasterLinesIn(style, bws, k) ==
  IF k > Len(bws) THEN <<>>
  ELSE <<StreamInf(bws[k]), VariantRefIn(style, k)>> \o MasterLinesIn(style, bws, k + 1)

MasterBodyIn(style, bws) == <<ExtM3U>> \o MasterLinesIn(style, bws, 1)

\* The m3u8Responses map of a page load that captured the designated body (or not)
\* and the bodies of some of the variants; variant k has k segment lines.
ResponsesOf(style, bws, designated, variants) ==
  LET urls == (IF designated THEN {MasterUrl} ELSE {})
              \cup {ResolveUrl(VariantRefIn(style, k), MasterUrl) : k \in variants}
  IN [u \in urls |->
        IF u = MasterUrl THEN MasterBodyIn(style, bws)
        ELSE MediaBody(CHOOSE k \in variants :
                         u = ResolveUrl(VariantRefIn(style, k), MasterUrl))]

\* Masters of up to MaxVariants variants with every choice of bandwidths and of
\* captured bodies, and a designated body that is a media playlist.
ResolveInputs ==
  { ResponsesOf(in.style, in.bws, in.designated, in.variants) :
      in \in UNION { [style : {"plain", "ts"}, bws : [1..m -> BandwidthChoices],
                     designated : BOOLEAN, variants : SUBSET (1..m)] : m \in 0..MaxVariants } }
  \cup { (MasterUrl :> MediaBody(n)) : n \in 1..MaxSegments }

\* resolveSegmentPlaylist(lesson.m3u8Url, lesson.m3u8Responses || {})
CallResolve ==
  /\ fnIn = NoCall
  /\ \E m3u8Responses \in ResolveInputs :
       /\ fnIn' = [fn |-> "resolveSegmentPlaylist", masterM3u8Url |-> MasterUrl,
                   m3u8Responses |-> m3u8Responses]
       /\ fnOut' = [fn |-> "resolveSegmentPlaylist",
                    result |-> resolveSegmentPlaylist(MasterUrl, m3u8Responses)]
  /\ UNCHANGED <<runVars, pc, idx, diskVars, lessonVars, segVars, segHist, itemHist, runHist>>

ResolveSpec == Init /\ [][CallResolve]_vars

\* ------------------------- downloadLesson from the captures to the segment URLs

\* The reference of variant k in a master: beside the master, in a directory
\* below it, or on another host
VariantRefAt(style, k) ==
  CASE style = "subdir" -> <<"hd", "/">> \o VariantRef(k)
    [] style = "host" -> <<"https://", "cdn2", "/", "x", "/">> \o VariantRef(k)
    [] OTHER -> VariantRefIn(style, k)

VariantUrlAt(style, k) ==
  IF style = "host" THEN VariantRefAt(style, k)
  ELSE ResolveUrl(VariantRefAt(style, k), MasterUrl)

\* The captures of a lesson: a master of m variants with some of their bodies
\* (variant k has k segment lines), or a media playlist under the designated URL
PlaylistInputs ==
  { [u \in {MasterUrl} \cup {VariantUrlAt(in.style, k) : k \in in.variants} |->
       IF u = MasterUrl
         THEN <<ExtM3U>> \o [j \in 1..(2 * Len(in.bws)) |->
                               IF j % 2 = 1 THEN StreamInf(in.bws[(j + 1) \div 2])
                               ELSE VariantRefAt(in.style, j \div 2)]
         ELSE MediaBody(CHOOSE k \in in.variants : u = VariantUrlAt(in.style, k))] :
      in \in UNION { [style : {"plain", "ts", "subdir", "host"},
                      bws : [1..m -> {"500", "1200"}],
                      variants : SUBSET (1..m)] : m \in 1..MaxVariants } }
  \cup { (MasterUrl :> MediaBody(n)) : n \in 1..MaxSegments }

\* downloadLesson lines 238-250: resolveSegmentPlaylist, then parseM3U8Playlist
\* of the resolved body with the resolved URL as base
CallResolvePlaylist ==
  /\ fnIn = NoCall
  /\ \E m3u8Responses \in PlaylistInputs :
       LET resolved == resolveSegmentPlaylist(MasterUrl, m3u8Responses)
           parsed == parseM3U8Playlist(resolved.playlistContent, resolved.playlistUrl)
       IN /\ fnIn' = [fn |-> "downloadLesson", m3u8Url |-> MasterUrl,
                      m3u8Responses |-> m3u8Responses]
          /\ fnOut' = [fn |-> "segmentUrls", playlistUrl |-> resolved.playlistUrl,
                       error |-> IF resolved.error # NoError THEN resolved.error
                                 ELSE IF parsed.error # NoError THEN parsed.error
                                 ELSE IF parsed.urls = <<>>
                                   THEN "No video segments found in M3U8 playlist"
                                 ELSE NoError,
                       segmentUrls |-> IF resolved.error # NoError THEN <<>> ELSE parsed.urls]
  /\ UNCHANGED <<runVars, pc, idx, diskVars, lessonVars, segVars, segHist, itemHist, runHist>>

PlaylistSpec == Init /\ [][CallResolvePlaylist]_vars

\* --------------------------------------------- parseM3U8Playlist on its own

\* A JavaScript value handed to a function: a string with its text, or null,
\* undefined, a number or an object.
JsString(text) == [type |-> "string", text |-> text]

JsOther(type) == [type |-> type, text |-> <<>>]

\* The lines a playlist text is built of: tags, a comment, blank lines, relative
\* and absolute segment lines, and content lines that are no segment lines.
LineChoices ==
  { ExtInf,
    <<"#", "comment">>,
    <<>>,
    <<WS>>,
    SegRef(0),
    <<WS>> \o SegRef(1) \o <<WS>>,
    <<"https://", "cdn2", "/", "a", ".ts">>,
    <<"https://", "cdn", "/", "x", ".mp4">>,
    <<"v1", ".ts", ".m3u8">> }

\* Every text of up to MaxLines lines; the text of one empty line is the empty
\* string, written <<>>.
PlaylistTexts ==
  {<<>>} \cup (UNION { [1..n -> LineChoices] : n \in 1..MaxLines } \ { << <<>> >> })

ParseInputs ==
  {JsString(text) : text \in PlaylistTexts}
  \cup {JsOther(type) : type \in {"null", "undefined", "number", "object"}}

BaseUrls == {MasterUrl, <<"https://", "cdn", "/", "hls", "/", "hd", "/", "v1", ".m3u8">>}

\* if (!m3u8Content || typeof m3u8Content !== 'string') throw, then the parse
ParseCall(value, baseUrl) ==
  IF value.type # "string"
    THEN [error |-> "Invalid M3U8 content provided", urls |-> <<>>]
    ELSE parseM3U8Playlist(value.text, baseUrl)

\* parseM3U8Playlist(m3u8Content, baseUrl)
CallParse ==
  /\ fnIn = NoCall
  /\ \E value \in ParseInputs, baseUrl \in BaseUrls :
       /\ fnIn' = [fn |-> "parseM3U8Playlist", value |-> value, baseUrl |-> baseUrl]
       /\ fnOut' = [fn |-> "parseM3U8Playlist", result |-> ParseCall(value, baseUrl)]
  /\ UNCHANGED <<runVars, pc, idx, diskVars, lessonVars, segVars, segHist, itemHist, runHist>>

ParseSpec == Init /\ [][CallParse]_vars

\* ----------------------------------------------- parseAllVariants on its own

\* The #EXT-X-STREAM-INF lines a master is built of, by the attributes they carry
StreamInfLine(kind) ==
  CASE kind = "average-first" ->
         <<"#EXT-X-STREAM-INF", ":", "AVERAGE-BANDWIDTH=", "800", ",", "BANDWIDTH=", "1200">>
    [] kind = "unparsable" -> <<"#EXT-X-STREAM-INF", ":", "BANDWIDTH=", "high">>
    [] OTHER -> StreamInf(kind)

StreamInfKinds == {"none", "500", "1200", "unparsable", "average-first"}

\* One variant of a master: its tag line, maybe a comment line, then its URL line
VariantBlocks == [inf : StreamInfKinds, comment : BOOLEAN, absolute : BOOLEAN]

VariantLineOf(block, k) ==
  IF block.absolute THEN <<"https://", "cdn2", "/">> \o VariantRef(k) ELSE VariantRef(k)

RECURSIVE BlockLines(_, _)
BlockLines(blocks, k) ==
  IF k > Len(blocks) THEN <<>>
  ELSE <<StreamInfLine(blocks[k].inf)>>
       \o (IF blocks[k].comment THEN << <<"#", "comment">> >> ELSE <<>>)
       \o <<VariantLineOf(blocks[k], k)>>
       \o BlockLines(blocks, k + 1)

\* The master text of the blocks, with a last tag line that no URL follows if dangling
MasterTextOf(blocks, dangling) ==
  <<ExtM3U>> \o BlockLines(blocks, 1)
  \o (IF dangling THEN <<StreamInf("500"), <<>> >> ELSE <<>>)

VariantInputs ==
  UNION { [blocks : [1..m -> VariantBlocks], dangling : BOOLEAN] : m \in 0..MaxVariants }

\* parseAllVariants(masterContent, masterUrl)
CallParseAllVariants ==
  /\ fnIn = NoCall
  /\ \E in \in VariantInputs :
       /\ fnIn' = [fn |-> "parseAllVariants", blocks |-> in.blocks,
                   masterContent |-> MasterTextOf(in.blocks, in.dangling),
                   masterUrl |-> MasterUrl]
       /\ fnOut' = [fn |-> "parseAllVariants",
                    result |-> parseAllVariants(MasterTextOf(in.blocks, in.dangling), MasterUrl)]
  /\ UNCHANGED <<runVars, pc, idx, diskVars, lessonVars, segVars, segHist, itemHist, runHist>>

VariantSpec == Init /\ [][CallParseAllVariants]_vars

\* parseMasterPlaylist(masterContent, masterUrl)
CallParseMasterPlaylist ==
  /\ fnIn = NoCall
  /\ \E in \in VariantInputs :
       /\ fnIn' = [fn |-> "parseMasterPlaylist", blocks |-> in.blocks,
                   masterContent |-> MasterTextOf(in.blocks, in.dangling),
                   masterUrl |-> MasterUrl]
       /\ fnOut' = [fn |-> "parseMasterPlaylist",
                    result |-> parseMasterPlaylist(MasterTextOf(in.blocks, in.dangling),
                                                   MasterUrl)]
  /\ UNCHANGED <<runVars, pc, idx, diskVars, lessonVars, segVars, segHist, itemHist, runHist>>

MasterSpec == Init /\ [][CallParseMasterPlaylist]_vars

\* ------------------------------------- the input of mergeSegments on its own

\* Indices of blob files, up to and beyond the five digits of the padding
BlobNumbers == {0, 1, 2, 10, 99999, 100000}

NumberedNames == {SegmentFileName(n) : n \in BlobNumbers}

\* Names a manifest may list: blob names and names that are not index names
ListedNames == {<<"a", ".ts">>, <<"b", ".ts">>, SegmentFileName(0), SegmentFileName(1)}

\* Files of a segments directory that are not segments
OtherFiles == {ConcatFileName, <<"output", ".mp4">>}

\* JSON.stringify({ segments }) written to manifest.json, or a file that is not JSON
ManifestData(segments) == [kind |-> "manifest", segments |-> segments]

CorruptData == [kind |-> "corrupt"]

DirWith(names, manifest) ==
  [exists |-> TRUE,
   files |-> [f \in names \cup (IF manifest = <<>> THEN {} ELSE {ManifestFileName}) |->
                IF f = ManifestFileName THEN manifest[1] ELSE Bytes(f)]]

\* Lists of distinct names of at most MaxSegments entries
ManifestLists ==
  UNION { {s \in [1..n -> ListedNames] : \A j, k \in 1..n : j # k => s[j] # s[k]} :
          n \in 0..MaxSegments }

\* Directories with a manifest that lists files of the directory, and directories
\* of blob files with no manifest, an empty one or one that is not JSON
MergeDirs ==
  {DirWith(Range(s) \cup extra, <<ManifestData(s)>>) :
     s \in ManifestLists \ {<<>>}, extra \in SUBSET OtherFiles}
  \cup {DirWith(names \cup extra, manifest) :
          names \in SUBSET NumberedNames, extra \in SUBSET OtherFiles,
          manifest \in {<<>>, <<ManifestData(<<>>)>>, <<CorruptData>>}}

\* mergeSegments(segmentsDir, outputPath) up to the choice of segmentFiles
CallMergeInput ==
  /\ fnIn = NoCall
  /\ \E dir \in MergeDirs :
       /\ fnIn' = [fn |-> "mergeSegments", segmentsDir |-> dir]
       /\ fnOut' = [fn |-> "mergeSegments", segmentFiles |-> MergeInput(dir)]
  /\ UNCHANGED <<runVars, pc, idx, diskVars, lessonVars, segVars, segHist, itemHist, runHist>>

MergeInputSpec == Init /\ [][CallMergeInput]_vars

\* --------------------------------------------------- saveProgress on its own

\* The progress objects the loop saves: lists of distinct lesson numbers
ProgressValues ==
  {[completed |-> s, total |-> NumLessons] :
     s \in UNION { {q \in [1..n -> 1..NumLessons] : \A j, k \in 1..n : j # k => q[j] # q[k]} :
                   n \in 0..NumLessons }}

\* The file after writeFileSync has opened it with flag 'w': truncated, and not
\* yet holding the JSON text
TruncatedFile == [state |-> "partial", completed |-> <<>>, total |-> 0]

\* writeFileSync(progressPath, text) opens the progress file itself
SaveOpen ==
  /\ pc = "idle"
  /\ run < MaxRuns
  /\ run' = run + 1
  /\ \E progress \in ProgressValues :
       fnIn' = [fn |-> "saveProgress", progress |-> progress, previous |-> progressFile]
  /\ progressFile' = TruncatedFile
  /\ pc' = "writing"
  /\ UNCHANGED <<keepTemp, lessons, completedLessons, idx, tempDirs, outputs, lessonVars,
                 segVars, segHist, itemHist, runHist, fnOut>>

\* writeFileSync writes the text and closes the file
SaveWrite ==
  /\ pc = "writing"
  /\ progressFile' = saveProgress(fnIn.progress)
  /\ pc' = "idle"
  /\ UNCHANGED <<runVars, idx, tempDirs, outputs, lessonVars, segVars, segHist, itemHist,
                 runHist, fnVars>>

\* The process is killed between the open and the write
SaveKilled ==
  /\ pc = "writing"
  /\ pc' = "idle"
  /\ UNCHANGED <<runVars, idx, diskVars, lessonVars, segVars, segHist, itemHist,
                 runHist, fnVars>>

\* Another process, or the next run, reads the file: loadProgress(outputDir)
ReadProgress ==
  /\ fnOut' = [fn |-> "loadProgress", state |-> progressFile.state,
               result |-> loadProgress(progressFile)]
  /\ fnOut' # fnOut
  /\ UNCHANGED <<runVars, pc, idx, diskVars, lessonVars, segVars, segHist, itemHist,
                 runHist, fnIn>>

SaveNext == SaveOpen \/ SaveWrite \/ SaveKilled \/ ReadProgress

SaveSpec == Init /\ [][SaveNext]_vars

\* ------------------------------------- the load of the progress on its own

\* Lists of lesson numbers of at most NumLessons entries
NumberLists == UNION { [1..n -> 1..NumLessons] : n \in 0..NumLessons }

\* What .download-progress.json may hold when a run begins: nothing, text that
\* is not JSON, an object with an array 'completed', the JSON null, a JSON
\* number, an object without 'completed', an object whose 'completed' is a number
ProgressContents ==
  {[state |-> "json", completed |-> s, total |-> NumLessons] : s \in NumberLists}
  \cup {[state |-> st, completed |-> <<>>, total |-> 0] :
          st \in {"absent", "corrupt", "partial", "null", "scalar", "no-completed",
                  "completed-number"}}

\* const progress = loadProgress(outputDir);
\* const completedLessons = progress.completed || [];
\* and the first completedLessons.includes(...) of the loop
CompletedOf(file) ==
  CASE file.state = "json" -> [error |-> NoError, completed |-> file.completed]
    [] file.state = "null" ->
         [error |-> "TypeError: Cannot read properties of null (reading 'completed')",
          completed |-> <<>>]
    [] file.state = "completed-number" ->
         [error |-> "TypeError: completedLessons.includes is not a function",
          completed |-> <<>>]
    [] OTHER -> [error |-> NoError, completed |-> <<>>]

\* The file is found with some content when downloadCourse is started
PlaceProgressFile ==
  /\ pc \in {"idle", "loop", "rejected"}
  /\ run < MaxRuns
  /\ \E file \in ProgressContents : progressFile' = file
  /\ progressFile' # progressFile
  /\ pc' = "idle"
  /\ UNCHANGED <<runVars, idx, tempDirs, outputs, lessonVars, segVars, segHist, itemHist,
                 runHist, fnVars>>

\* downloadCourse from loadProgress to the first test of the loop (lines 79-94)
LoadRun ==
  /\ pc = "idle"
  /\ run < MaxRuns
  /\ run' = run + 1
  /\ LET loadedProgress == CompletedOf(progressFile)
     IN /\ lastError' = loadedProgress.error
        /\ completedLessons' = loadedProgress.completed
        /\ IF loadedProgress.error # NoError
             THEN pc' = "rejected" /\ lessons' = <<>> /\ idx' = 0
             ELSE pc' = "loop" /\ lessons' = [n \in 1..NumLessons |-> n] /\ idx' = 1
  /\ UNCHANGED <<keepTemp, diskVars, lessonVars, segmentUrl, retryCount, attempt,
                 segmentData, segHist, itemHist, runHist, fnVars>>

LoadNext == PlaceProgressFile \/ LoadRun

LoadSpec == Init /\ [][LoadNext]_vars

\* ------------------------------------- the checks of downloadLesson on its own

\* A JavaScript value by what the checks look at: its typeof and its truthiness
JsValue(type, truthy) == [type |-> type, truthy |-> truthy]

JsUndefined == JsValue("undefined", FALSE)

\* page: null, undefined, an object without evaluate, an object with evaluate
PageValues ==
  {[type |-> "null", evaluate |-> FALSE], [type |-> "undefined", evaluate |-> FALSE],
   [type |-> "object", evaluate |-> FALSE], [type |-> "object", evaluate |-> TRUE]}

\* lesson.number: missing, 0, 'one', 1
NumberValues ==
  {JsUndefined, JsValue("number", FALSE), JsValue("string", TRUE), JsValue("number", TRUE)}

\* lesson.m3u8Url: missing, '', 123, a URL
UrlValues ==
  {JsUndefined, JsValue("string", FALSE), JsValue("number", TRUE), JsValue("string", TRUE)}

\* outputDir: null, '', 5, a path
OutputDirValues ==
  {JsValue("null", FALSE), JsValue("string", FALSE), JsValue("number", TRUE),
   JsValue("string", TRUE)}

\* lesson: null, undefined, a string, or an object with the two fields
LessonValues ==
  {[type |-> t, number |-> JsUndefined, m3u8Url |-> JsUndefined] :
     t \in {"null", "undefined", "string"}}
  \cup {[type |-> "object", number |-> n, m3u8Url |-> u] : n \in NumberValues, u \in UrlValues}

\* The checks in the order lesson, page, ...: a variant with the first two swapped
ValidateLessonFirst(page, lessonArg, outputDir) ==
  IF lessonArg.type # "object" THEN "Lesson object is required"
  ELSE IF page.type # "object" \/ ~page.evaluate
    THEN "Invalid Puppeteer page instance provided"
  ELSE IF ~lessonArg.number.truthy \/ lessonArg.number.type # "number"
    THEN "Lesson number is required"
  ELSE IF ~lessonArg.m3u8Url.truthy \/ lessonArg.m3u8Url.type # "string"
    THEN "Lesson M3U8 URL is required"
  ELSE IF ~outputDir.truthy \/ outputDir.type # "string" THEN "Output directory is required"
  ELSE NoError

\* The argument checks of downloadLesson (lines 213-232): the message thrown, or none
ValidateLesson(page, lessonArg, outputDir) ==
  IF page.type # "object" \/ ~page.evaluate
    THEN "Invalid Puppeteer page instance provided"
  ELSE IF lessonArg.type # "object" THEN "Lesson object is required"
  ELSE IF ~lessonArg.number.truthy \/ lessonArg.number.type # "number"
    THEN "Lesson number is required"
  ELSE IF ~lessonArg.m3u8Url.truthy \/ lessonArg.m3u8Url.type # "string"
    THEN "Lesson M3U8 URL is required"
  ELSE IF ~outputDir.truthy \/ outputDir.type # "string" THEN "Output directory is required"
  ELSE NoError

\* downloadLesson(page, lesson, outputDir) called directly, up to its first
\* downloadSegment: a failed check throws before mkdir; with valid arguments the
\* temp directory of lesson 1 is made and its captured playlist resolved
CallDownloadLesson ==
  /\ fnIn = NoCall
  /\ \E page \in PageValues, lessonArg \in LessonValues, outputDir \in OutputDirValues :
       LET message == ValidateLesson(page, lessonArg, outputDir)
           capture == CHOOSE c \in LessonCaptures :
                        LET r == resolveSegmentPlaylist(c.m3u8Url, c.m3u8Responses)
                        IN /\ r.error = NoError
                           /\ parseM3U8Playlist(r.playlistContent, r.playlistUrl).urls # <<>>
           resolved == resolveSegmentPlaylist(capture.m3u8Url, capture.m3u8Responses)
           parsed == parseM3U8Playlist(resolved.playlistContent, resolved.playlistUrl)
       IN /\ fnIn' = [fn |-> "downloadLesson", page |-> page, lesson |-> lessonArg,
                      outputDir |-> outputDir]
          /\ fnOut' = [fn |-> "downloadLesson", error |-> message]
          /\ IF message # NoError
               THEN /\ lastError' = message
                    /\ UNCHANGED <<pc, tempDirs, lessonVars, segmentUrl, retryCount, attempt,
                                   segmentData, segHist, itemHist, ops>>
               ELSE /\ tempDirs' = [tempDirs EXCEPT ![1].exists = TRUE]
                    /\ lesson' = [number |-> 1, m3u8Url |-> capture.m3u8Url,
                                  m3u8Responses |-> capture.m3u8Responses]
                    /\ segmentUrls' = parsed.urls
                    /\ i' = 0
                    /\ downloadedCount' = 0
                    /\ segmentFiles' = <<>>
                    /\ CallDownloadSegment(parsed.urls[1], DefaultRetryCount)
                    /\ fetched' = {0}
                    /\ written' = {}
                    /\ Record(1, "resolve")
  /\ UNCHANGED <<runVars, idx, progressFile, outputs, prevAttempted, loaded>>

ValidateSpec == Init /\ [][CallDownloadLesson]_vars

\* ------------------------------------- the checks of mergeSegments on its own

\* segmentsDir and outputPath as passed: null, '', a path
PathValues == {JsValue("null", FALSE), JsValue("string", FALSE), JsValue("string", TRUE)}

\* The directory the path names: none, or one of the directories of MergeDirs
\* (the empty directory among them)
DirsOnDisk == {NoDir} \cup MergeDirs

\* The checks with the look at the directory before the check of ffmpeg
MergeChecksDirFirst(segmentsDir, outputPath, hasFfmpeg, dir) ==
  IF ~segmentsDir.truthy \/ segmentsDir.type # "string" THEN "Segments directory is required"
  ELSE IF ~outputPath.truthy \/ outputPath.type # "string" THEN "Output path is required"
  ELSE IF ~dir.exists /\ readManifest(dir) = <<>>
    THEN "ENOENT: no such file or directory, scandir"
  ELSE IF Len(MergeInput(dir)) = 0 THEN "No TS segments found in directory"
  ELSE IF ~hasFfmpeg THEN "ffmpeg is not installed or not available in PATH"
  ELSE NoError

\* mergeSegments up to the concat file (lines 71-106): the message thrown, or none
MergeChecks(segmentsDir, outputPath, hasFfmpeg, dir) ==
  IF ~segmentsDir.truthy \/ segmentsDir.type # "string" THEN "Segments directory is required"
  ELSE IF ~outputPath.truthy \/ outputPath.type # "string" THEN "Output path is required"
  ELSE IF ~hasFfmpeg THEN "ffmpeg is not installed or not available in PATH"
  ELSE IF ~dir.exists /\ readManifest(dir) = <<>>
    THEN "ENOENT: no such file or directory, scandir"
  ELSE IF Len(MergeInput(dir)) = 0 THEN "No TS segments found in directory"
  ELSE NoError

\* mergeSegments(segmentsDir, outputPath) called directly, up to the spawn of
\* ffmpeg: the directory of lesson 1 stands for the one the path names
CallMergeSegments ==
  /\ fnIn = NoCall
  /\ \E segmentsDir \in PathValues, outputPath \in PathValues, hasFfmpeg \in BOOLEAN,
        dir \in DirsOnDisk :
       LET message == MergeChecks(segmentsDir, outputPath, hasFfmpeg, dir)
           files == MergeInput(dir)
       IN /\ fnIn' = [fn |-> "mergeSegments", segmentsDir |-> segmentsDir,
                      outputPath |-> outputPath, hasFfmpeg |-> hasFfmpeg, dir |-> dir]
          /\ fnOut' = [fn |-> "mergeSegments", error |-> message]
          /\ lastError' = message
          /\ IF message # NoError
               THEN /\ tempDirs' = [tempDirs EXCEPT ![1] = dir]
                    /\ UNCHANGED <<pc, segmentFiles>>
               ELSE /\ segmentFiles' = files
                    /\ tempDirs' = [tempDirs EXCEPT ![1] =
                                      WriteFile(dir, ConcatFileName,
                                                [kind |-> "concat", files |-> files])]
                    /\ pc' = "muxing"
  /\ UNCHANGED <<runVars, idx, progressFile, outputs, lesson, segmentUrls, i,
                 downloadedCount, segmentUrl, retryCount, attempt, segmentData, segHist,
                 itemHist, runHist>>

MergeCheckSpec == Init /\ [][CallMergeSegments]_vars

\* ------------------------------------------------------ auth.js: login

\* A field of the credentials: missing, null, '', 0, a number, a non-empty string
FieldValues ==
  {JsUndefined, JsValue("null", FALSE), JsValue("string", FALSE), JsValue("number", FALSE),
   JsValue("number", TRUE), JsValue("string", TRUE)}

\* The first argument of login: null, an object with the two fields, or a
\* string (a string has no property email or password)
CredentialValues ==
  {[type |-> t, email |-> JsUndefined, password |-> JsUndefined] : t \in {"null", "string"}}
  \cup {[type |-> "object", email |-> e, password |-> p] : e \in FieldValues, p \in FieldValues}

\* A check that looks at the email only
LoginCheckEmailOnly(creds, visible) ==
  IF ~visible /\ ~creds.email.truthy THEN "Email and password are required" ELSE NoError

\* if (!visible && (!creds.email || !creds.password)) throw (lines 29-31)
LoginCheck(creds, visible) ==
  IF ~visible /\ (~creds.email.truthy \/ ~creds.password.truthy)
    THEN "Email and password are required"
    ELSE NoError

\* creds.email?.trim(), creds.password?.trim() (lines 34-36): a field that is
\* neither a string nor null or undefined has no trim
TrimCheck(creds) ==
  IF creds.type # "null" /\ (creds.email.type = "number" \/ creds.password.type = "number")
    THEN "TypeError: trim is not a function"
    ELSE NoError

\* login(credentials, options) (lines 15-58): loadConfig for missing credentials,
\* the check, the trim, the launch of the browser, then the log-in itself; a
\* log-in that throws closes the browser before the error leaves login
LoginOutcome(credentials, visible, config, configReadable, accepted) ==
  LET needsConfig == credentials.type = "null" /\ ~visible
      creds == IF needsConfig THEN config ELSE credentials
      message == IF needsConfig /\ ~configReadable
                   THEN "Failed to load credentials: ENOENT"
                 ELSE IF LoginCheck(creds, visible) # NoError
                   THEN LoginCheck(creds, visible)
                 ELSE TrimCheck(creds)
  IN IF message # NoError
       THEN [fn |-> "login", error |-> message, launched |-> FALSE, open |-> FALSE]
     ELSE IF accepted
       THEN [fn |-> "login", error |-> NoError, launched |-> TRUE, open |-> TRUE]
     ELSE [fn |-> "login",
           error |-> IF visible THEN "Login timed out. Please try again."
                     ELSE "Login failed: Invalid credentials or form error",
           launched |-> TRUE, open |-> FALSE]

\* login called directly
CallLogin ==
  /\ fnIn = NoCall
  /\ \E credentials \in CredentialValues, visible \in BOOLEAN,
        config \in {c \in CredentialValues : c.type = "object"},
        configReadable \in BOOLEAN, accepted \in BOOLEAN :
       LET needsConfig == credentials.type = "null" /\ ~visible
       IN /\ fnIn' = [fn |-> "login", credentials |-> credentials, visible |-> visible,
                      config |-> IF needsConfig /\ configReadable THEN config
                                 ELSE [type |-> "null", email |-> JsUndefined,
                                       password |-> JsUndefined]]
          /\ fnOut' = LoginOutcome(credentials, visible, config, configReadable, accepted)
  /\ UNCHANGED <<runVars, pc, idx, diskVars, lessonVars, segVars, segHist, itemHist, runHist>>

LoginSpec == Init /\ [][CallLogin]_vars

\* ------------------------------- index.js: downloadCourse and its browser

\* What login(email, password) binds to its parameter credentials: the default
\* null for undefined, else the value itself; a string or a number has no
\* property email or password, and every falsy value fails the test of !creds.
FirstArgument(value) ==
  IF value.truthy
    THEN [type |-> value.type, email |-> JsUndefined, password |-> JsUndefined]
    ELSE [type |-> "null", email |-> JsUndefined, password |-> JsUndefined]

\* const { visible = false } = options, with the password bound to options:
\* null cannot be destructured; any other value has no property visible
SecondArgument(value) ==
  IF value = JsValue("null", FALSE)
    THEN "TypeError: Cannot destructure property 'visible' of 'options' as it is null"
    ELSE NoError

CourseReturn(at, credentials, error, launched, closed) ==
  [fn |-> "downloadCourse", at |-> at, credentials |-> credentials, error |-> error,
   launched |-> launched, closed |-> closed]

\* downloadCourse(courseUrl, options) from its call to the end of
\* puppeteer.launch (index.js 49-65, auth.js 15-43): the ffmpeg check, then
\* login(email, password)
CallDownloadCourse ==
  /\ fnIn = NoCall
  /\ \E email \in FieldValues, password \in FieldValues, hasFfmpeg \in BOOLEAN,
        config \in {c \in CredentialValues : c.type = "object"},
        configReadable \in BOOLEAN, launches \in BOOLEAN :
       LET credentials == FirstArgument(email)
           needsConfig == hasFfmpeg /\ SecondArgument(password) = NoError
                          /\ credentials.type = "null"
           checked == LoginOutcome(credentials, FALSE, config, configReadable, TRUE)
       IN /\ fnIn' = [fn |-> "downloadCourse", email |-> email, password |-> password,
                      config |-> IF needsConfig /\ configReadable THEN config
                                 ELSE FirstArgument(JsUndefined)]
          /\ fnOut' =
               IF ~hasFfmpeg
                 THEN CourseReturn("exit", FirstArgument(JsUndefined), "exit 1", 0, 0)
               ELSE IF SecondArgument(password) # NoError
                 THEN CourseReturn("rejected", credentials, SecondArgument(password), 0, 0)
               ELSE IF checked.error # NoError
                 THEN CourseReturn("rejected", credentials, checked.error, 0, 0)
               ELSE IF ~launches
                 THEN CourseReturn("rejected", credentials, "Failed to launch the browser process", 0, 0)
               ELSE CourseReturn("launched", credentials, NoError, 1, 0)
  /\ UNCHANGED <<runVars, pc, idx, diskVars, lessonVars, segVars, segHist, itemHist, runHist>>

CourseAt(at) == fnOut # NoCall /\ fnOut.fn = "downloadCourse" /\ fnOut.at = at

\* One step of the running downloadCourse: from one place to the next, or to
\* the place an error leads to
CourseStep(from, to, onError, message) ==
  /\ CourseAt(from)
  /\ \/ fnOut' = [fnOut EXCEPT !.at = to]
     \/ fnOut' = [fnOut EXCEPT !.at = onError, !.error = message]
  /\ UNCHANGED <<runVars, pc, idx, diskVars, lessonVars, segVars, segHist, itemHist,
                 runHist, fnIn>>

\* browser.newPage() and page.setViewport (auth.js 45-46), before the try block
LoginNewPage ==
  CourseStep("launched", "try", "rejected", "Protocol error (Target.createTarget): timed out")

\* try { automatedLogin } catch (error) { await browser.close().catch(...); throw }
\* (auth.js 48-57)
LoginAttempt ==
  /\ CourseAt("try")
  /\ \/ fnOut' = [fnOut EXCEPT !.at = "metadata"]
     \/ fnOut' = [fnOut EXCEPT !.at = "rejected", !.closed = @ + 1,
                               !.error = "Login failed: Invalid credentials or form error"]
  /\ UNCHANGED <<runVars, pc, idx, diskVars, lessonVars, segVars, segHist, itemHist,
                 runHist, fnIn>>

\* getCourseMetadata, mkdir and loadProgress inside the try (index.js 67-80)
GetCourseMetadata ==
  CourseStep("metadata", "extract", "finally", "Failed to fetch course metadata")

\* extractCourseData (index.js 87-90)
ExtractCourseData ==
  CourseStep("extract", "loop", "finally", "Failed to extract course data")

\* The loop over the lessons (index.js 93-134): it ends, or an error outside
\* the try of an iteration leaves it
LessonLoop ==
  CourseStep("loop", "finally", "finally", "TypeError: completedLessons.includes is not a function")

\* finally { await browser.close() } (index.js 136-138)
CloseBrowser ==
  /\ CourseAt("finally")
  /\ fnOut' = [fnOut EXCEPT !.closed = @ + 1,
                            !.at = IF fnOut.error = NoError THEN "returned" ELSE "rejected"]
  /\ UNCHANGED <<runVars, pc, idx, diskVars, lessonVars, segVars, segHist, itemHist,
                 runHist, fnIn>>

\* The steps downloadCourse takes by itself once it is called
CourseRuns ==
  \/ LoginNewPage
  \/ LoginAttempt
  \/ GetCourseMetadata
  \/ ExtractCourseData
  \/ LessonLoop
  \/ CloseBrowser

CourseNext == CallDownloadCourse \/ CourseRuns

\* Every await of downloadCourse and of login settles: the protocol calls and
\* the navigations carry a timeout.
CourseSpec == Init /\ [][CourseNext]_vars /\ WF_vars(CourseRuns)

\* --------------------------------------- extractor.js: extractM3U8Data

SignedIndexUrl == <<"https://", "cdn", "/", "hls", "/", "index", ".m3u8", "?Signature=">>

\* The responses a lesson page can produce while it loads: the signed master, a
\* variant playlist, and a resource that is no playlist
ResponseUrls ==
  {SignedIndexUrl,
   <<"https://", "cdn", "/", "hls", "/", "v1", ".m3u8">>,
   <<"https://", "cdn", "/", "poster", ".jpg">>}

\* url.includes('.m3u8')
IncludesM3u8(url) == \E k \in 1..Len(url) : url[k] = ".m3u8"

\* u.includes('index.m3u8') && u.includes('Signature')
IsSignedIndex(u) ==
  /\ \E k \in 1..(Len(u) - 1) : u[k] = "index" /\ u[k + 1] = ".m3u8"
  /\ \E k \in 1..Len(u) : u[k] = "?Signature="

\* urls.find(u => ...) || urls[0]
RECURSIVE FindSignedIndex(_)
FindSignedIndex(urls) ==
  IF urls = <<>> THEN <<>>
  ELSE IF IsSignedIndex(Head(urls)) THEN <<Head(urls)>>
  ELSE FindSignedIndex(Tail(urls))

ChooseMasterUrl(urls) ==
  IF FindSignedIndex(urls) # <<>> THEN FindSignedIndex(urls)[1] ELSE urls[1]

\* m3u8Responses[url] = body on the keys in insertion order
PutKey(keys, url) == IF url \in Range(keys) THEN keys ELSE Append(keys, url)

Extracting == fnIn # NoCall /\ fnIn.fn = "extractM3U8Data"

\* extractM3U8Data(page, lessonUrl) up to the call of page.goto (lines 555-573):
\* the empty map, the listener registered
CallExtractM3U8Data ==
  /\ fnIn = NoCall
  /\ fnIn' = [fn |-> "extractM3U8Data", at |-> "goto", listening |-> TRUE,
              m3u8Responses |-> <<>>, reading |-> {}, started |-> {}]
  /\ fnOut' = NoCall
  /\ UNCHANGED <<runVars, pc, idx, diskVars, lessonVars, segVars, segHist, itemHist, runHist>>

\* The page emits 'response' while the listener is registered: responseHandler
\* runs to its await of response.text() (lines 559-563)
ResponseEvent ==
  /\ Extracting
  /\ fnIn.listening
  /\ \E url \in ResponseUrls \ fnIn.started :
       fnIn' = [fnIn EXCEPT !.started = @ \cup {url},
                            !.reading = IF IncludesM3u8(url) THEN @ \cup {url} ELSE @]
  /\ UNCHANGED <<runVars, pc, idx, diskVars, lessonVars, segVars, segHist, itemHist,
                 runHist, fnOut>>

\* response.text() settles: the body is stored under its URL, or the read
\* throws and the catch drops it (lines 563-567).  Nothing waits for it.
BodyRead ==
  /\ Extracting
  /\ \E url \in fnIn.reading :
       \/ fnIn' = [fnIn EXCEPT !.reading = @ \ {url},
                               !.m3u8Responses = PutKey(@, url)]
       \/ fnIn' = [fnIn EXCEPT !.reading = @ \ {url}]
  /\ UNCHANGED <<runVars, pc, idx, diskVars, lessonVars, segVars, segHist, itemHist,
                 runHist, fnOut>>

\* page.off, then the result from the keys of the map as they are now (lines 588-597)
ExtractResult(call) ==
  /\ fnIn' = [call EXCEPT !.at = "returned", !.listening = FALSE]
  /\ fnOut' = IF call.m3u8Responses = <<>>
                THEN [fn |-> "extractM3U8Data", null |-> TRUE, masterUrl |-> <<>>,
                      urls |-> <<>>]
                ELSE [fn |-> "extractM3U8Data", null |-> FALSE,
                      masterUrl |-> ChooseMasterUrl(call.m3u8Responses),
                      urls |-> call.m3u8Responses]

\* page.goto resolves at network idle, or it throws and the finally removes the
\* listener (lines 573-576, 587-589)
GotoSettled ==
  /\ Extracting
  /\ fnIn.at = "goto"
  /\ \/ fnIn' = [fnIn EXCEPT !.at = "wait"] /\ fnOut' = fnOut
     \/ /\ fnIn' = [fnIn EXCEPT !.at = "rejected", !.listening = FALSE]
        /\ fnOut' = [fn |-> "extractM3U8Data", null |-> TRUE, masterUrl |-> <<>>,
                     urls |-> <<>>]
  /\ UNCHANGED <<runVars, pc, idx, diskVars, lessonVars, segVars, segHist, itemHist, runHist>>

\* waitForSelector and the sleep of 3000 ms are over (lines 578-586): with no
\* key in the map the play button is clicked and 5000 ms more are slept
WaitElapsed ==
  /\ Extracting
  /\ fnIn.at = "wait"
  /\ IF fnIn.m3u8Responses = <<>>
       THEN fnIn' = [fnIn EXCEPT !.at = "play"] /\ fnOut' = fnOut
       ELSE ExtractResult(fnIn)
  /\ UNCHANGED <<runVars, pc, idx, diskVars, lessonVars, segVars, segHist, itemHist, runHist>>

\* The sleep of 5000 ms after the click is over
PlayElapsed ==
  /\ Extracting
  /\ fnIn.at = "play"
  /\ ExtractResult(fnIn)
  /\ UNCHANGED <<runVars, pc, idx, diskVars, lessonVars, segVars, segHist, itemHist, runHist>>

ExtractNext ==
  \/ CallExtractM3U8Data
  \/ ResponseEvent
  \/ BodyRead
  \/ GotoSettled
  \/ WaitElapsed
  \/ PlayElapsed

ExtractSpec == Init /\ [][ExtractNext]_vars

\* --------------------------------- two instances on the same output root

Instances == {1, 2}

\* An instance of downloadCourse by its locals and what it has done
InstanceIdle == [pc |-> "idle", idx |-> 0, completedLessons |-> <<>>, loaded |-> {}, merged |-> {}]

\* A save that reads the file again and adds the new number to what it holds
SaveMerged(file, completed, total) ==
  saveProgress([completed |-> IF completed[Len(completed)] \in Range(loadProgress(file))
                                THEN loadProgress(file)
                                ELSE Append(loadProgress(file), completed[Len(completed)]),
                total |-> total])

\* saveProgress(outputDir, { completed: completedLessons, total }) of an
\* instance: its own list, whatever the file holds
SaveOwn(file, completed, total) == saveProgress([completed |-> completed, total |-> total])

\* The first instance is started (lines 49-90 of downloadCourse)
InstancesBegin ==
  /\ fnIn = NoCall
  /\ fnIn' = [fn |-> "downloadCourse",
              inst |-> [p \in Instances |-> IF p = 1
                          THEN [InstanceIdle EXCEPT !.pc = "loop", !.idx = 1]
                          ELSE InstanceIdle]]
  /\ UNCHANGED <<runVars, pc, idx, diskVars, lessonVars, segVars, segHist, itemHist,
                 runHist, fnOut>>

\* Another instance is started: loadProgress and progress.completed || []
InstanceLoad(p) ==
  /\ fnIn # NoCall /\ fnIn.fn = "downloadCourse"
  /\ fnIn.inst[p].pc = "idle"
  /\ fnIn' = [fnIn EXCEPT !.inst[p] =
                [pc |-> "loop", idx |-> 1, completedLessons |-> loadProgress(progressFile),
                 loaded |-> Range(loadProgress(progressFile)), merged |-> {}]]
  /\ UNCHANGED <<runVars, pc, idx, diskVars, lessonVars, segVars, segHist, itemHist,
                 runHist, fnOut>>

\* One iteration of the loop of an instance (lines 93-131): a recorded lesson is
\* skipped; else the lesson fails, or it is downloaded, merged, pushed and saved
InstanceIteration(p) ==
  /\ fnIn # NoCall /\ fnIn.fn = "downloadCourse"
  /\ LET me == fnIn.inst[p]
         number == me.idx
     IN /\ me.pc = "loop"
        /\ IF number > NumLessons
             THEN /\ fnIn' = [fnIn EXCEPT !.inst[p].pc = "done"]
                  /\ UNCHANGED <<progressFile, outputs>>
           ELSE IF number \in Range(me.completedLessons)
             THEN /\ fnIn' = [fnIn EXCEPT !.inst[p].idx = number + 1]
                  /\ UNCHANGED <<progressFile, outputs>>
           ELSE \/ /\ fnIn' = [fnIn EXCEPT !.inst[p].idx = number + 1]
                   /\ UNCHANGED <<progressFile, outputs>>
                \/ /\ fnIn' = [fnIn EXCEPT
                                 !.inst[p].idx = number + 1,
                                 !.inst[p].completedLessons = Append(@, number),
                                 !.inst[p].merged = @ \cup {number}]
                   /\ outputs' = [outputs EXCEPT ![number] = [exists |-> TRUE]]
                   /\ progressFile' = SaveOwn(progressFile,
                                              Append(me.completedLessons, number),
                                              NumLessons)
  /\ UNCHANGED <<runVars, pc, idx, tempDirs, lessonVars, segVars, segHist, itemHist,
                 runHist, fnOut>>

InstancesNext ==
  \/ InstancesBegin
  \/ \E p \in Instances : InstanceLoad(p)
  \/ \E p \in Instances : InstanceIteration(p)

InstancesSpec == Init /\ [][InstancesNext]_vars

\* ------------------------------------------------- properties of the loop

\* Lesson numbers the current run called mergeSegments for after a complete download,
\* with ffmpeg exiting 0
Merged == {n \in 1..NumLessons : <<n, "downloaded">> \in ops /\ <<n, "merged">> \in ops}

\* C1: a lesson number is in the completed list, in memory or in the progress file,
\* only if it was there when the run began or if, in this run, every segment of the
\* lesson was fetched and written and mergeSegments resolved.
C1_ProgressOnlyAfterMerge ==
  /\ Range(progressFile.completed) \subseteq loaded \cup Merged
  /\ pc \notin {"idle", "rejected"} => Range(completedLessons) \subseteq loaded \cup Merged

\* A lesson merged in this run is in the progress file, next to one that failed.
C1_Witness ==
  /\ \E n \in Range(progressFile.completed) : n \notin loaded /\ n \in Merged
  /\ \E n \in Attempted : n \notin Merged /\ n \notin Range(progressFile.completed)

\* The lessons the previous run called downloadLesson for without recording them
FailedBefore == prevAttempted \ loaded

\* Nothing is done in this run for a lesson the progress file held at its start.
C2_Skipped ==
  \A n \in loaded :
     /\ <<n, "resolve">> \notin ops
     /\ <<n, "downloaded">> \notin ops
     /\ <<n, "merged">> \notin ops
     /\ pc # "rejected" => lesson.number # n

\* What the earlier run attempted and did not record is attempted by this one.
C2_Retried == pc = "done" => FailedBefore \subseteq Attempted

\* No step writes the output file of a recorded lesson.
C2_OutputKept == \A n \in loaded : pc # "idle" => outputs'[n] = outputs[n]

\* C2: in a run that follows another one against the same output root, a lesson
\* recorded in the progress file is skipped (downloadLesson and mergeSegments are
\* not called for it and its output file is not written), and every lesson the
\* earlier run attempted without recording it has been attempted again when the
\* loop is over.
C2_IdempotentResume == [](C2_Skipped /\ C2_Retried) /\ [][C2_OutputKept]_vars

\* The second run is over; the first one had recorded a lesson and failed another.
C2_Witness ==
  /\ run = MaxRuns
  /\ pc = "done"
  /\ loaded # {}
  /\ FailedBefore # {}
  /\ \A n \in loaded : outputs[n].exists

\* C3: an error thrown while a lesson is processed does not reject downloadCourse
\* (it rejects only before the first lesson) and does not keep a later lesson
\* from being attempted: when the loop is over, every lesson that was not
\* skipped has been handed to downloadLesson.
C3_FailureIsolation ==
  /\ pc = "rejected" => ops = {} /\ lesson = NoLesson
  /\ pc = "done" => \A n \in 1..NumLessons : n \in loaded \/ n \in Attempted

\* The first lesson failed, the loop went on to the second and came to its end.
C3_Witness ==
  /\ pc = "done"
  /\ 1 \in Attempted
  /\ 1 \notin Range(completedLessons)
  /\ NumLessons \in Attempted

\* The names 00000.ts .. of the first n segment indexes, in index order
BlobNames(n) == [k \in 1..n |-> SegmentFileName(k - 1)]

\* C5: when mergeSegments has built its input for N segment URLs u_0..u_{N-1},
\* the blob named after index i holds the bytes of u_i and the input is the list
\* of the blobs 0..N-1 in index order, nothing reordered, left out or doubled.
C5_SegmentOrder ==
  pc = "muxing" =>
    LET n == Len(segmentUrls)
        dir == tempDirs[lesson.number]
    IN /\ \A k \in 1..n : /\ SegmentFileName(k - 1) \in DOMAIN dir.files
                          /\ dir.files[SegmentFileName(k - 1)] = Bytes(segmentUrls[k])
       /\ segmentFiles = BlobNames(n)

\* From the call of mergeSegments on, every index was fetched and written.
C6_MergeAfterAll ==
  pc \in {"merge", "muxing", "save", "cleanup"} =>
    LET n == Len(segmentUrls)
    IN /\ fetched = 0..(n - 1)
       /\ written = 0..(n - 1)
       /\ downloadedCount = n
       /\ pc = "merge" => \A k \in 1..n :
                            SegmentFileName(k - 1) \in DOMAIN tempDirs[lesson.number].files

\* downloadSegment threw for index i: nothing above i was asked for, nothing merged.
C6_FetchFailed ==
  pc = "seg_err" /\ lesson.number # 0 =>
    /\ fetched = 0..i
    /\ written = 0..(i - 1)
    /\ lesson.number \notin Merged

\* The step after the throw ends the iteration; no merge, no output.
C6_Aborted ==
  pc = "seg_err" /\ lesson.number # 0 =>
    /\ pc' = "loop"
    /\ idx' = idx + 1
    /\ lesson' = NoLesson
    /\ outputs' = outputs
    /\ ops' = ops

\* C6: mergeSegments is called only when every index 0..N-1 was fetched and
\* written by this downloadLesson; when downloadSegment throws for index k,
\* nothing above k was fetched, no merge was made for the lesson, and the next
\* step leaves the lesson without touching its output file.
C6_MergeOnlyAfterAllSegments ==
  [](C6_MergeAfterAll /\ C6_FetchFailed) /\ [][C6_Aborted]_vars

\* The fetch of index 0 of a two-segment lesson has used up its attempts.
C6_Witness ==
  /\ pc = "seg_err"
  /\ lesson.number # 0
  /\ i = 0
  /\ Len(segmentUrls) > 1
  /\ failures = DefaultRetryCount

\* A lesson is between the call of downloadLesson and the end of its iteration.
InLesson == pc \in {"fetching", "backoff", "seg_ok", "seg_err", "merge", "muxing",
                    "save", "cleanup"}

\* C4: with a fetch capability and a muxer that answer, a lesson that is being
\* resolved, fetched or merged leaves that phase (done or failed), and a loop
\* that was entered comes to its end.
C4_LoopTerminates ==
  /\ \A n \in 1..NumLessons : (lesson.number = n) ~> (lesson.number # n)
  /\ InLesson ~> ~InLesson
  /\ (pc = "loop") ~> (pc = "done")

\* The loop is over and every lesson was handed to downloadLesson, one failing.
C4_Witness ==
  /\ pc = "done"
  /\ Attempted = 1..NumLessons
  /\ Merged # {}
  /\ Merged # Attempted

\* ----------------------------------------------- properties of downloadSegment

\* The delays of the first n failed attempts: 1 s, 2 s, 4 s, ...
ExpectedWaits(n) == [k \in 1..n |-> (2 ^ (k - 1)) * 1000]

\* C7: for every retryCount >= 1, a downloadSegment that returns after j failed
\* attempts (j < retryCount) made j + 1 calls and slept j times, 2^(k-1) seconds
\* after the k-th failure, and returns the bytes of its URL; one that throws made
\* retryCount calls, all failed, and slept retryCount - 1 times.
C7_BoundedRetry ==
  /\ pc = "seg_ok" =>
       /\ failures < retryCount
       /\ calls = failures + 1
       /\ waits = ExpectedWaits(failures)
       /\ segmentData = Bytes(segmentUrl)
  /\ pc = "seg_err" =>
       /\ failures = retryCount
       /\ calls = retryCount
       /\ waits = ExpectedWaits(retryCount - 1)
       /\ segmentData = NoData
  /\ pc \in {"fetching", "backoff"} => calls <= retryCount /\ failures < retryCount

\* downloadSegment returned on its last attempt of MaxRetry, after three sleeps.
C7_Witness ==
  /\ pc = "seg_ok"
  /\ lesson = NoLesson
  /\ retryCount = MaxRetry
  /\ failures = retryCount - 1
  /\ Len(waits) >= 3

\* A timed-out attempt is handled by the catch of the retry loop like any other.
C8_TimeoutCounted ==
  AttemptTimeout =>
    /\ lastError' = "Runtime.callFunctionOn timed out"
    /\ failures' = failures + 1
    /\ calls' = calls
    /\ IF attempt < retryCount
         THEN pc' = "backoff" /\ waits' = Append(waits, (2 ^ (attempt - 1)) * 1000)
         ELSE pc' = "seg_err" /\ waits' = waits

\* C8: even if the server never answers, every page.evaluate of a segment fetch
\* ends, a timed-out attempt counts as a failed attempt of the same retry loop,
\* and downloadSegment returns or throws.
C8_BoundedTimeout ==
  /\ (pc = "fetching") ~> (pc # "fetching")
  /\ (pc \in {"fetching", "backoff"}) ~> (pc \in {"seg_ok", "seg_err"})
  /\ [][C8_TimeoutCounted]_vars

\* downloadSegment threw after every one of its attempts had timed out.
C8_Witness ==
  /\ pc = "seg_err"
  /\ lastError = "Runtime.callFunctionOn timed out"
  /\ failures = DefaultRetryCount
  /\ Len(waits) = DefaultRetryCount - 1

\* --------------------------------------- properties of resolveSegmentPlaylist

\* The variants a master text declares, in document order
DeclaredVariants(content) == VariantsFrom(SplitLines(content), 1, MasterUrl)

\* A master playlist: it declares variants and has no segment line.
IsMasterText(content) ==
  /\ content # <<>>
  /\ DeclaredVariants(content) # <<>>
  /\ SegmentUrlsFrom(SplitLines(content), 1, MasterUrl) = <<>>

\* Positions of the declared variants whose URL has a captured body
CapturedPositions(content, m3u8Responses) ==
  {k \in 1..Len(DeclaredVariants(content)) :
     Captured(m3u8Responses, DeclaredVariants(content)[k].url)}

\* The captured variant of highest bandwidth, the first in the document among equals
BestCaptured(content, m3u8Responses) ==
  LET vs == DeclaredVariants(content)
      ks == CapturedPositions(content, m3u8Responses)
      k == CHOOSE a \in ks : \A b \in ks :
             \/ vs[a].bandwidth > vs[b].bandwidth
             \/ vs[a].bandwidth = vs[b].bandwidth /\ a <= b
  IN vs[k]

Resolving == fnOut # NoCall /\ fnOut.fn = "resolveSegmentPlaylist"

\* C9: for a designated body that is a master, resolveSegmentPlaylist returns the
\* captured variant of highest bandwidth (the first in the document among equals)
\* with its captured body, never a variant that has no captured body.
C9_VariantSelection ==
  Resolving /\ Captured(fnIn.m3u8Responses, fnIn.masterM3u8Url) =>
    LET content == fnIn.m3u8Responses[fnIn.masterM3u8Url]
    IN IsMasterText(content) /\ CapturedPositions(content, fnIn.m3u8Responses) # {} =>
         LET best == BestCaptured(content, fnIn.m3u8Responses)
         IN fnOut.result = Resolved(best.url, fnIn.m3u8Responses[best.url])

\* C10: resolveSegmentPlaylist throws 'Master M3U8 response body not captured'
\* when the map has no body for the designated URL, and 'No variant M3U8 response
\* bodies were captured' when the body is a master none of whose variants has a
\* captured body.
C10_ResolverErrors ==
  Resolving =>
    IF ~Captured(fnIn.m3u8Responses, fnIn.masterM3u8Url)
      THEN fnOut.result = ResolveError("Master M3U8 response body not captured")
      ELSE LET content == fnIn.m3u8Responses[fnIn.masterM3u8Url]
           IN IsMasterText(content) /\ CapturedPositions(content, fnIn.m3u8Responses) = {} =>
                fnOut.result = ResolveError("No variant M3U8 response bodies were captured")

\* The body has a non-comment, non-blank line that ends in '.ts'.
HasSegmentLine(content) ==
  content # <<>> /\ SegmentUrlsFrom(SplitLines(content), 1, MasterUrl) # <<>>

\* C11: resolveSegmentPlaylist returns the designated body itself as the segment
\* playlist if and only if that body has a content line ending in '.ts'; a body
\* without one, whatever its tag lines or variant URLs contain, is not returned
\* as the segment playlist.
C11_Classification ==
  Resolving /\ Captured(fnIn.m3u8Responses, fnIn.masterM3u8Url) =>
    LET content == fnIn.m3u8Responses[fnIn.masterM3u8Url]
    IN (fnOut.result = Resolved(fnIn.masterM3u8Url, content)) <=> HasSegmentLine(content)

\* ------------------------------------------- properties of parseM3U8Playlist

Parsing == fnOut # NoCall /\ fnOut.fn = "parseM3U8Playlist"

SegmentPositions(text) == {k \in 1..Len(text) : IsSegmentLine(text[k])}

\* The position in the text of its j-th segment line
NthSegmentPosition(text, j) ==
  CHOOSE k \in SegmentPositions(text) :
    Cardinality({p \in SegmentPositions(text) : p <= k}) = j

C13_ParseErrors ==
  Parsing =>
    IF fnIn.value.type # "string" \/ fnIn.value.text = <<>>
      THEN fnOut.result = [error |-> "Invalid M3U8 content provided", urls |-> <<>>]
      ELSE SegmentPositions(fnIn.value.text) = {} =>
             fnOut.result = [error |-> NoError, urls |-> <<>>]

\* The empty string was handed to parseM3U8Playlist and rejected.
C13_Witness ==
  /\ Parsing
  /\ fnIn.value = JsString(<<>>)
  /\ fnOut.result.error = "Invalid M3U8 content provided"

\* -------------------------------------------- properties of parseAllVariants

ListingVariants == fnOut # NoCall /\ fnOut.fn = "parseAllVariants"

\* The value of the BANDWIDTH attribute of a tag line, 0 if it has none or no number
BandwidthAttribute(kind) ==
  CASE kind = "500" -> 500
    [] kind = "1200" -> 1200
    [] kind = "average-first" -> 1200
    [] OTHER -> 0

\* The place of block k in the order by descending bandwidth, equals in document order
RankOf(blocks, k) ==
  1 + Cardinality({j \in 1..Len(blocks) :
                     \/ BandwidthAttribute(blocks[j].inf) > BandwidthAttribute(blocks[k].inf)
                     \/ /\ BandwidthAttribute(blocks[j].inf) = BandwidthAttribute(blocks[k].inf)
                        /\ j < k})

\* C14: parseAllVariants returns one variant for every #EXT-X-STREAM-INF line that
\* a content line follows, with that line (resolved against the master URL) as
\* URL and the BANDWIDTH attribute (0 if absent or no number) as bandwidth,
\* ordered by descending bandwidth, equals in document order.
C14_AllVariants ==
  ListingVariants =>
    LET blocks == fnIn.blocks
        result == fnOut.result
    IN /\ Len(result) = Len(blocks)
       /\ \A k \in 1..Len(blocks) :
            result[RankOf(blocks, k)] =
              [url |-> IF blocks[k].absolute THEN VariantLineOf(blocks[k], k)
                       ELSE DirOf(fnIn.masterUrl) \o VariantLineOf(blocks[k], k),
               bandwidth |-> BandwidthAttribute(blocks[k].inf)]

\* ---------------------------------------- properties of the input of the merge

ChoosingInput == fnOut # NoCall /\ fnOut.fn = "mergeSegments"

\* The list of a manifest.json that parses, <<>> if there is none or it lists nothing
ManifestOf(dir) ==
  IF ManifestFileName \in DOMAIN dir.files /\ dir.files[ManifestFileName].kind = "manifest"
    THEN dir.files[ManifestFileName].segments
    ELSE <<>>

\* C15: with a manifest, the input of the merge is exactly the file names the
\* manifest lists, in the order of the manifest.
C15_ManifestPrecedence ==
  (ChoosingInput /\ ManifestOf(fnIn.segmentsDir) # <<>>) =>
    fnOut.segmentFiles = ManifestOf(fnIn.segmentsDir)

\* The index a blob file name stands for
BlobNumberOf(name) == CHOOSE n \in BlobNumbers : SegmentFileName(n) = name

\* C17: without a manifest, the input of the merge is the .ts files of the
\* directory in ascending order of their numeric value, also for indices that
\* have more digits than the padding.
C17_NumericSort ==
  (ChoosingInput /\ ManifestOf(fnIn.segmentsDir) = <<>>) =>
    LET result == fnOut.segmentFiles
        blobs == (DOMAIN fnIn.segmentsDir.files) \cap NumberedNames
    IN /\ Range(result) = blobs
       /\ Len(result) = Cardinality(blobs)
       /\ \A k \in 1..(Len(result) - 1) :
            BlobNumberOf(result[k]) < BlobNumberOf(result[k + 1])

C17_Witness ==
  /\ ChoosingInput
  /\ ManifestOf(fnIn.segmentsDir) = <<>>
  /\ fnOut.segmentFiles =
       <<SegmentFileName(1), SegmentFileName(2), SegmentFileName(10),
         SegmentFileName(99999), SegmentFileName(100000)>>

\* ------------------------------------------------- properties of the temp files

\* C16: whenever a lesson enters the merge step, its temp directory holds a
\* manifest that lists exactly the N blob file names of this run in index order.
C16_ManifestWritten ==
  pc = "merge" =>
    readManifest(tempDirs[lesson.number]) =
      << [k \in 1..Len(segmentUrls) |-> SegmentFileName(k - 1)] >>

\* The blob files the current lesson has written in this run
WrittenBlobs == {SegmentFileName(k) : k \in written}

\* The lessons that reached Done in this run: merged and recorded in the progress file
DoneInRun ==
  {n \in 1..NumLessons : <<n, "merged">> \in ops /\ n \in Range(loadProgress(progressFile))}

\* The blobs are deleted after the merge when the keep option is not set
C18_DeletedWithoutKeep ==
  (pc = "cleanup" /\ ~keepTemp) =>
    WrittenBlobs \cap DOMAIN tempDirs[lesson.number].files = {}

\* The blobs are there when the lesson is Done with the keep option set
C18_KeptWhenDone ==
  (pc = "cleanup" /\ keepTemp /\ LessonDone) =>
    WrittenBlobs \subseteq DOMAIN tempDirs'[lesson.number].files

\* The blobs are there at the end of a run with the keep option set
C18_KeptAtEnd ==
  (pc = "done" /\ keepTemp) =>
    \A n \in DoneInRun : SegmentFileName(0) \in DOMAIN tempDirs[n].files

\* C18: after a lesson's merge succeeds its blobs are deleted when the keep
\* option is not set; when it is set, every blob written for the lesson still
\* exists in the temp directory after the lesson is Done and at the end of the run.
C18_KeepTemp ==
  /\ [](C18_DeletedWithoutKeep /\ C18_KeptAtEnd)
  /\ [][C18_KeptWhenDone]_vars

\* ------------------------------------------------ properties of a failed merge

\* The step in which mergeSegments rejects after ffmpeg was started
MergeRejects == pc = "muxing" /\ pc' \notin {"muxing", "save"}

\* C19: when ffmpeg exits with a non-zero code or cannot be spawned,
\* mergeSegments rejects with an error that carries the captured diagnostic
\* output, the lesson fails, every blob of the lesson stays in its temp
\* directory and the progress file is unchanged.
C19_MergeFailure ==
  [][MergeRejects =>
       LET number == lesson.number
           before == tempDirs[number].files
           after == tempDirs'[number].files
       IN /\ lastError' \in {"ffmpeg exited with code 1: " \o MuxerStderr,
                             "Failed to spawn ffmpeg: " \o SpawnErrorMessage}
          /\ pc' = "loop" /\ idx' = idx + 1
          /\ number \notin Range(completedLessons')
          /\ <<number, "merged">> \notin ops'
          /\ outputs' = outputs
          /\ WrittenBlobs # {}
          /\ \A f \in DOMAIN before :
               EndsWithTs(f) => f \in DOMAIN after /\ after[f] = before[f]
          /\ progressFile' = progressFile]_vars

C19_Witness ==
  /\ pc = "loop"
  /\ idx = 2
  /\ lastError = "ffmpeg exited with code 1: " \o MuxerStderr
  /\ SegmentFileName(0) \in DOMAIN tempDirs[1].files
  /\ 1 \notin Range(loadProgress(progressFile))

\* --------------------------------------------------- properties of saveProgress

\* C20: the progress file holds at every instant, a kill or a read during
\* saveProgress included, either the complete previous state or the complete
\* new state, never a partly written one.
C20_AtomicSave ==
  (fnIn # NoCall /\ fnIn.fn = "saveProgress") =>
    progressFile \in {fnIn.previous, saveProgress(fnIn.progress)}

\* ------------------------------------------- properties of the progress file

\* C21: whatever the progress file holds, the run is not aborted by the load: the
\* loop is entered, and with no file or a file that does not parse the
\* completed list is empty.
C21_LoadRecovery ==
  (run > 0 /\ pc # "idle") =>
    /\ pc = "loop"
    /\ progressFile.state \in {"absent", "corrupt", "partial"} => completedLessons = <<>>

\* The lesson numbers the progress file holds
Persisted(file) == Range(loadProgress(file))

NoDuplicates(seq) == \A j, k \in 1..Len(seq) : j # k => seq[j] # seq[k]

\* C22: a write of the progress file adds exactly the number of the lesson
\* being recorded to the numbers the file held just before and sets the total
\* to the number of lessons; the persisted numbers of a running instance never
\* shrink and hold no number twice.
C22_PersistsUnion ==
  /\ [][progressFile' # progressFile =>
          /\ Persisted(progressFile') = Persisted(progressFile) \cup {lesson.number}
          /\ lesson.number \notin Persisted(progressFile)
          /\ progressFile'.total = Len(lessons)]_vars
  /\ [][Persisted(progressFile) \subseteq Persisted(progressFile')]_vars
  /\ [](NoDuplicates(loadProgress(progressFile)))

\* C22, amended: a write of the progress file sets it to the list kept in
\* memory, which is the numbers the file held just before, the numbers merged
\* earlier in this run whose write failed, and the number of the lesson being
\* recorded; the total is the number of lessons; the persisted numbers never
\* shrink and hold no number twice.
C22_PersistsMemory ==
  /\ [][progressFile' # progressFile =>
          /\ Persisted(progressFile') = Range(completedLessons) \cup {lesson.number}
          /\ Persisted(progressFile) \subseteq Range(completedLessons)
          /\ Range(completedLessons) \ Persisted(progressFile) \subseteq Merged
          /\ lesson.number \notin Range(completedLessons)
          /\ progressFile'.total = Len(lessons)]_vars
  /\ [][Persisted(progressFile) \subseteq Persisted(progressFile')]_vars
  /\ [](NoDuplicates(loadProgress(progressFile)))

C22_Witness ==
  /\ pc = "cleanup"
  /\ loaded = {1}
  /\ progressFile = [state |-> "json", completed |-> <<1, 2>>, total |-> NumLessons]

\* ------------------------------------------------------ properties of the skip

\* The loop is at a lesson that the progress file held when the run began
AtRecordedLesson == pc = "loop" /\ idx <= Len(lessons) /\ lessons[idx] \in loaded

\* The iteration of a recorded lesson goes to the next lesson and does nothing else
C23_SkipStep ==
  AtRecordedLesson =>
    /\ pc' = "loop" /\ idx' = idx + 1
    /\ ops' = ops /\ fetched' = fetched /\ written' = written /\ calls' = calls
    /\ lesson' = NoLesson
    /\ completedLessons' = completedLessons
    /\ tempDirs' = tempDirs /\ outputs' = outputs /\ progressFile' = progressFile

\* No step of the run touches the files of a recorded lesson or records it again
C23_FilesKept ==
  pc \notin {"idle", "done", "rejected"} =>
    /\ \A n \in loaded : tempDirs'[n] = tempDirs[n] /\ outputs'[n] = outputs[n]
    /\ progressFile' # progressFile => lesson.number \notin loaded

\* C23: for a lesson whose number is in the progress loaded at the start of the
\* run, the loop does no resolve, no fetch, no blob write, no merge and no
\* progress write, and leaves its temp directory, its output file and the
\* progress file unchanged.
C23_SkipFrame ==
  /\ [][C23_SkipStep /\ C23_FilesKept]_vars
  /\ [](\A n \in loaded : \A what \in {"resolve", "downloaded", "merged"} : <<n, what>> \notin ops)

C23_Witness ==
  /\ pc = "loop"
  /\ idx = 2
  /\ loaded = {1}
  /\ ops = {}
  /\ outputs[1].exists

\* ------------------------------------------------- properties of the sequencing

\* Some page.evaluate of downloadSegment is pending, slept on or just settled
InSegment == pc \in {"fetching", "backoff", "seg_ok", "seg_err"}

\* Only the lesson at the loop position is in work, and only its segment i
C24_OneAtATime ==
  /\ lesson # NoLesson =>
       /\ lesson.number = lessons[idx]
       /\ \A m \in 1..Len(lessons) : m > idx => <<lessons[m], "resolve">> \notin ops
       /\ \A m \in 1..Len(lessons) :
            m < idx => lessons[m] \in loaded \/ <<lessons[m], "resolve">> \in ops
  /\ lesson = NoLesson => fetched = {} /\ written = {} /\ calls = 0 /\ ~InSegment
  /\ InSegment =>
       /\ fetched = 0..i /\ written = 0..(i - 1)
       /\ segmentUrl = segmentUrls[i + 1]
       /\ calls = attempt
  /\ pc \in {"merge", "muxing", "save", "cleanup"} =>
       /\ calls = 0
       /\ fetched = 0..(Len(segmentUrls) - 1) /\ written = fetched

\* A lesson is begun only when no lesson is in work; the fetch of a segment is
\* begun only when the one before it has settled and is written
C24_StartsInTurn ==
  /\ ops' # ops /\ (\E n \in 1..NumLessons : <<n, "resolve">> \in ops' \ ops) =>
       pc = "loop" /\ lesson = NoLesson
  /\ \A k \in fetched' \ fetched :
       k > 0 => pc = "seg_ok" /\ (k - 1) \in written' /\ fetched = 0..(k - 1)

CheckedLesson == fnOut # NoCall /\ fnOut.fn = "downloadLesson"

PageOk(page) == page.type = "object" /\ page.evaluate

LessonOk(lessonArg) == lessonArg.type = "object"

NumberOk(lessonArg) == lessonArg.number.truthy /\ lessonArg.number.type = "number"

UrlOk(lessonArg) == lessonArg.m3u8Url.truthy /\ lessonArg.m3u8Url.type = "string"

OutputDirOk(outputDir) == outputDir.truthy /\ outputDir.type = "string"

CheckedMerge == fnOut # NoCall /\ fnOut.fn = "mergeSegments" /\ "error" \in DOMAIN fnOut

PathOk(value) == value.truthy /\ value.type = "string"

\* The directory exists and has neither a manifest that lists segments nor a .ts file
NothingToMerge(dir) ==
  /\ dir.exists
  /\ ManifestOf(dir) = <<>>
  /\ \A f \in DOMAIN dir.files : ~EndsWithTs(f)

HasSomethingToMerge(dir) ==
  ManifestOf(dir) # <<>> \/ \E f \in DOMAIN dir.files : EndsWithTs(f)

\* What C26 says apart from the case of the empty directory
C26_OtherRejections ==
  /\ ~PathOk(fnIn.segmentsDir) => fnOut.error = "Segments directory is required"
  /\ (PathOk(fnIn.segmentsDir) /\ ~PathOk(fnIn.outputPath)) =>
       fnOut.error = "Output path is required"
  /\ HasSomethingToMerge(fnIn.dir) => fnOut.error # "No TS segments found in directory"
  /\ fnOut.error # NoError =>
       /\ pc # "muxing"
       /\ \A n \in 1..NumLessons : ~outputs[n].exists
       /\ ConcatFileName \notin DOMAIN tempDirs[1].files \/ tempDirs[1] = fnIn.dir

\* C26: mergeSegments rejects with 'Segments directory is required' without a
\* directory argument, with 'Output path is required' without an output path,
\* with 'No TS segments found' when the directory has no manifest with
\* segments and no blob; never with 'No TS segments found' when it has one; and
\* in every rejecting case no output is written and ffmpeg is not started.
C26_MergeRejections ==
  CheckedMerge =>
    /\ C26_OtherRejections
    /\ (PathOk(fnIn.segmentsDir) /\ PathOk(fnIn.outputPath) /\ NothingToMerge(fnIn.dir)) =>
         fnOut.error = "No TS segments found in directory"

\* C26, amended: the rejection with 'No TS segments found' is the one of a call
\* with both arguments and with ffmpeg available; without ffmpeg the call
\* rejects with 'ffmpeg is not installed' before it looks at the directory.
C26_MergeRejectionsChecked ==
  CheckedMerge =>
    /\ C26_OtherRejections
    /\ (PathOk(fnIn.segmentsDir) /\ PathOk(fnIn.outputPath) /\ NothingToMerge(fnIn.dir)) =>
         fnOut.error = IF fnIn.hasFfmpeg THEN "No TS segments found in directory"
                       ELSE "ffmpeg is not installed or not available in PATH"

C26_Witness ==
  /\ CheckedMerge
  /\ PathOk(fnIn.segmentsDir) /\ PathOk(fnIn.outputPath) /\ fnIn.hasFfmpeg
  /\ fnIn.dir.exists /\ DOMAIN fnIn.dir.files = {<<"output", ".mp4">>}
  /\ fnOut.error = "No TS segments found in directory"

\* ------------------------------------------------------- properties of login

LoggedIn == fnOut # NoCall /\ fnOut.fn = "login"

\* C27: login in non-visible mode rejects with 'Email and password are
\* required' whenever the credentials object has no email or no password or
\* either is the empty string, and no browser has been launched then.
C27_LoginValidation ==
  (/\ LoggedIn
   /\ ~fnIn.visible
   /\ fnIn.credentials.type = "object"
   /\ \E field \in {fnIn.credentials.email, fnIn.credentials.password} :
        field \in {JsUndefined, JsValue("string", FALSE)}) =>
    /\ fnOut.error = "Email and password are required"
    /\ ~fnOut.launched

C27_Witness ==
  /\ LoggedIn
  /\ ~fnIn.visible
  /\ fnIn.credentials.type = "object"
  /\ fnIn.credentials.email = JsValue("string", TRUE)
  /\ fnIn.credentials.password = JsValue("string", FALSE)
  /\ fnOut.error = "Email and password are required"

\* ------------------------------------------ properties of the order of a success

\* A step that deletes a blob the current lesson has written
BlobDeleted ==
  /\ lesson # NoLesson
  /\ \E f \in WrittenBlobs :
       f \in DOMAIN tempDirs[lesson.number].files
       /\ f \notin DOMAIN tempDirs'[lesson.number].files

\* The progress file is not written before ffmpeg has exited with code 0
C28_WriteAfterMerge ==
  progressFile' # progressFile => <<lesson.number, "merged">> \in ops

\* No blob is deleted before ffmpeg has exited with code 0
C28_DeleteAfterMerge == BlobDeleted => <<lesson.number, "merged">> \in ops'

\* The blobs are deleted after the progress write, and only without keep-temp
C28_DeleteAfterWrite ==
  BlobDeleted => lesson.number \in Persisted(progressFile) /\ ~keepTemp

\* C28: on the success path of a lesson ffmpeg finishes with success, then the
\* number is written to the progress file, then (unless keep-temp is asked for)
\* the blobs are cleaned up; the progress write never precedes the success of
\* ffmpeg and no blob is deleted before it.
C28_SuccessOrder ==
  [][C28_WriteAfterMerge /\ C28_DeleteAfterMerge /\ C28_DeleteAfterWrite]_vars

\* --------------------------------------------- properties of two instances

TwoInstances == fnIn # NoCall /\ fnIn.fn = "downloadCourse"

\* C29: the progress file is not guarded: a write sets it to the writer's own
\* list (what that instance loaded and what it merged), not to the file's
\* content plus the new number, so with two instances on one output root the
\* file can end without a number that one of them merged and recorded.
C29_UnguardedWrite ==
  [][(TwoInstances /\ progressFile' # progressFile) =>
       \E p \in Instances :
         /\ fnIn'.inst[p].merged # fnIn.inst[p].merged
         /\ Persisted(progressFile') = fnIn'.inst[p].loaded \cup fnIn'.inst[p].merged]_vars

\* Both instances loaded the progress and are over, each has merged and recorded a
\* different lesson, and the file lacks the number one of them recorded
C29_Witness ==
  /\ TwoInstances
  /\ \A p \in Instances : fnIn.inst[p].pc = "done" /\ fnIn.inst[p].loaded = {}
  /\ fnIn.inst[1].merged = {2}
  /\ fnIn.inst[2].merged = {1}
  /\ \E n \in fnIn.inst[1].merged \cup fnIn.inst[2].merged : n \notin Persisted(progressFile)

\* ------------------------------------- properties of the base of the segment URLs

ListedSegments == fnOut # NoCall /\ fnOut.fn = "segmentUrls"

\* The segment lines of a body, each behind the directory of the base URL
RelativeAgainst(body, base) ==
  [j \in 1..Cardinality(SegmentPositions(body)) |->
     DirOf(base) \o Trim(body[NthSegmentPosition(body, j)])]

\* C30: when resolveSegmentPlaylist chose a variant of a master, the relative
\* segment lines of the variant's body are resolved against the URL of that
\* variant, not against the master URL; when the designated body is itself a
\* media playlist, they are resolved against the designated URL.
C30_EffectiveBase ==
  ListedSegments =>
    LET responses == fnIn.m3u8Responses
        designated == fnIn.m3u8Url
        chosen == fnOut.playlistUrl
    IN /\ HasSegmentLine(responses[designated]) =>
            /\ chosen = designated
            /\ fnOut.segmentUrls = RelativeAgainst(responses[designated], designated)
       /\ (fnOut.error = NoError /\ ~HasSegmentLine(responses[designated])) =>
            /\ chosen # designated
            /\ chosen \in DOMAIN responses
            /\ fnOut.segmentUrls = RelativeAgainst(responses[chosen], chosen)
            /\ DirOf(chosen) # DirOf(designated) =>
                 fnOut.segmentUrls # RelativeAgainst(responses[chosen], designated)

\* A variant in a directory below the master was chosen
C30_Witness ==
  /\ ListedSegments
  /\ fnOut.playlistUrl = <<"https://", "cdn", "/", "hls", "/", "hd", "/", "v2", ".m3u8">>
  /\ fnOut.segmentUrls =
       << <<"https://", "cdn", "/", "hls", "/", "hd", "/", "seg0", ".ts">>,
          <<"https://", "cdn", "/", "hls", "/", "hd", "/", "seg1", ".ts">> >>

\* ------------------------------------ properties of a lesson attempted again

\* The current lesson was called for by the earlier run and not recorded by it
Reattempted == lesson.number \in FailedBefore

\* C31: when a lesson that failed in an earlier run is attempted again and its
\* playlist now resolves to N segments, the input of the merge is exactly the N
\* blobs 0..N-1 written in this run, each holding the bytes of its URL; no blob
\* left by the earlier run (index >= N) is part of it.
C31_RerunMergeInput ==
  (pc = "muxing" /\ Reattempted) =>
    LET n == Len(segmentUrls)
        data == ConcatData(tempDirs[lesson.number], segmentFiles)
    IN /\ Len(segmentFiles) = n
       /\ \A k \in 1..Len(segmentFiles) :
            /\ SegmentNumber(segmentFiles[k]) < n
            /\ SegmentNumber(segmentFiles[k]) \in written
            /\ data[k] = Bytes(segmentUrls[SegmentNumber(segmentFiles[k]) + 1])

\* The clean up of the loop with the keep option unset ends the iteration without
\* an error, with no blob of the lesson left and the temp directory removed if and
\* only if nothing is left in it.
C32_CleanupStep ==
  (pc = "cleanup" /\ ~keepTemp) =>
    LET dir == tempDirs'[lesson.number]
    IN /\ lastError' = NoError
       /\ pc' = "loop"
       /\ WrittenBlobs \cap DOMAIN dir.files = {}
       /\ dir.exists <=> DOMAIN dir.files # {}

\* C32: after a successful merge with the keep option unset the clean up completes
\* without error: the blobs are deleted, the lesson's temp directory is removed
\* if and only if it is left empty, no step of the clean up throws, and the
\* lesson is Done and not reported as failed.
C32_CleanupCompletes == [][C32_CleanupStep]_vars

\* The lessons whose playlist, resolved in this run, has no segment line
NoSegments == {n \in 1..NumLessons : <<n, "no-segments">> \in ops}

\* The call of downloadLesson for such a lesson throws at once, nothing fetched
C33_FailsAtOnce ==
  \A n \in NoSegments' \ NoSegments :
    /\ pc = "loop" /\ pc' = "loop"
    /\ lessons[idx] = n /\ idx' = idx + 1
    /\ lastError' = "No video segments found in M3U8 playlist"
    /\ calls' = 0 /\ fetched' = {} /\ segmentUrl' = <<>>
    /\ lesson' = NoLesson

\* Nothing more is done for it in the run
C33_NothingDone ==
  \A n \in NoSegments :
    /\ lesson.number # n
    /\ <<n, "downloaded">> \notin ops
    /\ <<n, "merged">> \notin ops
    /\ n \notin Range(completedLessons)
    /\ n \notin Range(progressFile.completed)

\* Its output file is not written
C33_NoOutput == \A n \in NoSegments' : outputs'[n] = outputs[n]

\* C33: a lesson whose resolved playlist has no segment line fails with 'No video
\* segments found in M3U8 playlist' before any segment is fetched; it is never
\* merged, no output file is written for it and its number is never added to the
\* progress file.
C33_NoSegments == []C33_NothingDone /\ [][C33_FailsAtOnce /\ C33_NoOutput]_vars

\* The run is over: lesson 1 had a playlist without segment lines, the loop went
\* on and lesson 2 was merged and recorded.
C33_Witness ==
  /\ pc = "done"
  /\ 1 \in NoSegments
  /\ ~outputs[1].exists
  /\ <<2, "merged">> \in ops
  /\ 2 \in Range(progressFile.completed)

\* ------------------------------------- properties of downloadCourse's log-in

\* downloadCourse was called and came to its login step
LoginReached == fnOut # NoCall /\ fnOut.fn = "downloadCourse" /\ fnOut.at # "exit"

\* C34: when downloadCourse is called with options that carry a non-empty email
\* and a non-empty password, its login step receives both values as the
\* credentials and does not end in 'Email and password are required': the run
\* goes on to the launch of the browser.
C34_CredentialsPassed ==
  (/\ LoginReached
   /\ fnIn.email = JsValue("string", TRUE)
   /\ fnIn.password = JsValue("string", TRUE)) =>
    /\ fnOut.credentials.email = fnIn.email
    /\ fnOut.credentials.password = fnIn.password
    /\ fnOut.error # "Email and password are required"
    /\ fnOut.launched = 1 \/ fnOut.error = "Failed to launch the browser process"

\* ------------------------------------- properties of the browser's lifetime

CourseCalled == fnOut # NoCall /\ fnOut.fn = "downloadCourse"

\* A browser was launched and browser.close() has not been called on it
BrowserOpen == CourseCalled /\ fnOut.launched > fnOut.closed

\* downloadCourse has returned or rejected
CourseOver == CourseCalled /\ fnOut.at \in {"returned", "rejected"}

\* When downloadCourse is over, a launched browser has been closed, and once
C35_ClosedWhenOver == CourseOver => fnOut.closed = fnOut.launched

\* browser.close() is never called again on a closed browser
C35_ClosedOnce == CourseCalled => fnOut.closed <= fnOut.launched

\* C35: every browser launched by login is eventually closed on every path: a
\* login that fails after the launch closes it before the error leaves login,
\* and after a successful login downloadCourse closes it exactly once, whether
\* the metadata, the extraction or the loop complete or throw.
C35_BrowserLifetime ==
  /\ [](C35_ClosedWhenOver /\ C35_ClosedOnce)
  /\ (BrowserOpen ~> ~BrowserOpen)

\* ------------------------------------- properties of the captured bodies

\* The step in which extractM3U8Data computes its result
C36_AtResult ==
  (Extracting /\ fnIn.at \in {"wait", "play"} /\ fnIn'.at = "returned") =>
    fnIn.reading = {}

\* Once the listener is removed and the master URL chosen, the map is not written
C36_NoLateBody ==
  (Extracting /\ fnIn.at = "returned") => fnIn'.m3u8Responses = fnIn.m3u8Responses

\* C36: when extractM3U8Data computes its result, no body read of a .m3u8
\* response whose handler was started during the page load is pending (so the
\* map holds every body that can be read, and null is not returned while a
\* read is pending), and the handler never adds a body to the map after the
\* listener was removed and the master URL was chosen.
C36_CaptureComplete == [][C36_AtResult /\ C36_NoLateBody]_vars

\* ------------------------------------- properties of parseMasterPlaylist

ChoosingVariant == fnOut # NoCall /\ fnOut.fn = "parseMasterPlaylist"

\* C37: parseMasterPlaylist agrees with parseAllVariants: for a master text with
\* at least one variant it returns the URL of the first element of
\* parseAllVariants (highest bandwidth, first in document order among equals),
\* also when every variant has bandwidth 0 or no BANDWIDTH attribute; it returns
\* null only when there is no variant.
C37_AgreesWithAllVariants ==
  ChoosingVariant =>
    LET all == parseAllVariants(fnIn.masterContent, fnIn.masterUrl)
    IN IF all = <<>> THEN fnOut.result = <<>>
       ELSE fnOut.result = <<all[1].url>>

====
